---- MODULE Spec2Model ----
(***************************************************************************)
(* TOPAY-Z512: the fragmentation engine (fragment.rs), the hash primitive  *)
(* (hash.rs), the hash-based Kem (kem.rs), the LWE engine (lwe.rs,         *)
(* utils.rs, params.rs) and the fragmented key exchange built on it.       *)
(*                                                                         *)
(* Byte buffers are sequences of naturals below 256.  Results of fallible  *)
(* functions are records [ok |-> TRUE, val |-> ...] or                     *)
(* [ok |-> FALSE, err |-> <error kind>, why |-> <which check failed>].     *)
(***************************************************************************)
EXTENDS Integers, Sequences, FiniteSets, TLC

(***************************************************************************)
(* Bounds of the model                                                     *)
(***************************************************************************)
\* fragment.rs:19 sets FRAGMENT_SIZE to 512; the model chunks by a smaller
\* size so that buffers of MAX_FRAGMENTS + 1 chunks can be enumerated.
FRAGMENT_SIZE == 2
\* byte values the buffers of the model are built from: 0..ByteMax
ByteMax == 1
\* every byte sequence up to this length is an input of fragment_data
ShortLen == 5
\* longest fragment list handed to reconstruct_data that does not come from
\* fragment_data
MaxListLen == 2

\* the LWE dimension; params.rs:5 sets 1024, the model scales it down
N == 2

(***************************************************************************)
(* Program constants                                                       *)
(***************************************************************************)
MAX_FRAGMENTS == 128
HASH_SIZE == 64
Q == 65537
SEED_LENGTH == 32
SECRET_LENGTH == 64
COEFF_BITS == 16
COEFF_BYTES == (COEFF_BITS + 7) \div 8
PUBLIC_KEY_BYTES == N * N * COEFF_BYTES + SEED_LENGTH
SECRET_KEY_BYTES == N * COEFF_BYTES + SEED_LENGTH
CIPHERTEXT_BYTES == N * COEFF_BYTES + SECRET_LENGTH
\* params.rs has its own MAX_FRAGMENTS, beside the one of fragment.rs
PARAMS_MAX_FRAGMENTS == 16
MIN_FRAGMENTS == 2
\* the number of values of the u16 that encode_matrix writes per entry
U16_RANGE == 65536

ByteVals == 0..ByteMax

Ok(v) == [ok |-> TRUE, val |-> v]
Err(kind, why) == [ok |-> FALSE, err |-> kind, why |-> why]

Min(a, b) == IF a < b THEN a ELSE b

\* all byte sequences over ByteVals of length n
RECURSIVE SeqsOfLen(_)
SeqsOfLen(n) ==
    IF n = 0 THEN {<<>>}
    ELSE {Append(s, b) : s \in SeqsOfLen(n - 1), b \in ByteVals}

(***************************************************************************)
(* hash.rs                                                                 *)
(***************************************************************************)
\* bitwise exclusive or of two naturals
RECURSIVE Xor(_, _)
Xor(a, b) ==
    IF a = 0 THEN b
    ELSE IF b = 0 THEN a
    ELSE 2 * Xor(a \div 2, b \div 2) + ((a + b) % 2)

\* u64::to_le_bytes of a value below 2^31
ToLeBytes8(x) ==
    <<x % 256, (x \div 256) % 256, (x \div 65536) % 256,
      (x \div 16777216) % 256, 0, 0, 0, 0>>

\* std's DefaultHasher (SipHash, outside the repository): the model feeds it
\* the stream of items the code writes and gets a 64-bit value as 8
\* little-endian bytes.  The stand-in is a polynomial in SipBase modulo the
\* prime SipMod: every item of the stream counts, and it is injective on
\* streams of at most five items below SipBase - 1 (the digest is assumed
\* collision-free).
SipBase == 31
SipMod == 67108859

RECURSIVE SipFold(_, _, _, _)
SipFold(items, lo, hi, h) ==
    IF lo > hi THEN h
    ELSE IF lo = hi THEN (h * SipBase + items[lo] + 1) % SipMod
    ELSE LET mid == (lo + hi) \div 2
             left == SipFold(items, lo, mid, h)
         IN IF left < 0 THEN left ELSE SipFold(items, mid + 1, hi, left)

DefaultHasherFinish(items) == ToLeBytes8(SipFold(items, 1, Len(items), 0))

\* (n as u64).wrapping_mul(c) as 8 little-endian bytes, c given by its bytes
RECURSIVE WrappingMulBytes(_, _, _, _)
WrappingMulBytes(n, c, k, carry) ==
    IF k > 8 THEN <<>>
    ELSE LET p == n * c[k] + carry
         IN <<p % 256>> \o WrappingMulBytes(n, c, k + 1, p \div 256)

\* 0x9e3779b97f4a7c15, little-endian
GoldenBytes == <<21, 124, 74, 127, 185, 121, 55, 158>>

\* the expansion of Hash::new: byte j of chunk i of the digest, given the
\* hasher's value hb and the mixed length lb, both as little-endian bytes
ExpandByte(hb, lb, i, j) ==
    LET mixed == (hb[j + 1] + ((i * 17) % 256) + j) % 256
    IN IF i = 0 \/ i = (HASH_SIZE \div 8) - 1 THEN Xor(mixed, lb[j + 1]) ELSE mixed

\* chunk i (8 bytes) of the digest
ExpandChunk(hb, lb, i) ==
    <<ExpandByte(hb, lb, i, 0), ExpandByte(hb, lb, i, 1),
      ExpandByte(hb, lb, i, 2), ExpandByte(hb, lb, i, 3),
      ExpandByte(hb, lb, i, 4), ExpandByte(hb, lb, i, 5),
      ExpandByte(hb, lb, i, 6), ExpandByte(hb, lb, i, 7)>>

RECURSIVE ExpandFrom(_, _, _)
ExpandFrom(hb, lb, i) ==
    IF i >= HASH_SIZE \div 8 THEN <<>>
    ELSE ExpandChunk(hb, lb, i) \o ExpandFrom(hb, lb, i + 1)

\* Hash::new, computed
HashNewCompute(data) ==
    LET n == Len(data)
        hb == DefaultHasherFinish(<<n>> \o data)
        lb == WrappingMulBytes(n, GoldenBytes, 1, 0)
    IN ExpandFrom(hb, lb, 0)

\* the digests of the payloads a fragment of the model can carry, computed
\* once
RECURSIVE TableOf(_)
TableOf(S) ==
    IF S = {} THEN <<>>
    ELSE LET d == CHOOSE x \in S : TRUE
         IN (d :> HashNewCompute(d)) @@ TableOf(S \ {d})

HashTable == TableOf(UNION {SeqsOfLen(n) : n \in 0..FRAGMENT_SIZE})

\* the mutant of HashNew: the digest depends on the length of the data only
HashNewLenOnly(data) ==
    LET lb == WrappingMulBytes(Len(data), GoldenBytes, 1, 0)
    IN ExpandFrom(<<0, 0, 0, 0, 0, 0, 0, 0>>, lb, 0)

\* Hash::new
HashNew(data) ==
    IF data \in DOMAIN HashTable THEN HashTable[data] ELSE HashNewCompute(data)

\* chunk i of Hash::combine: the hasher's bytes xored with the bytes of
\* (i as u64).wrapping_mul(0x9e3779b97f4a7c15)
CombineChunk(hb, i) ==
    LET mb == WrappingMulBytes(i, GoldenBytes, 1, 0)
    IN <<Xor(hb[1], mb[1]), Xor(hb[2], mb[2]), Xor(hb[3], mb[3]),
         Xor(hb[4], mb[4]), Xor(hb[5], mb[5]), Xor(hb[6], mb[6]),
         Xor(hb[7], mb[7]), Xor(hb[8], mb[8])>>

RECURSIVE CombineFrom(_, _)
CombineFrom(hb, i) ==
    IF i >= 8 THEN <<>> ELSE CombineChunk(hb, i) \o CombineFrom(hb, i + 1)

\* Hash::combine
HashCombine(data1, data2) ==
    CombineFrom(DefaultHasherFinish(<<Len(data1), Len(data2)>>
                    \o <<Len(data1)>> \o data1 \o <<Len(data2)>> \o data2), 0)

\* 0xc6a4a7935bd1e995, little-endian
MurmurBytes == <<149, 233, 209, 91, 147, 167, 164, 198>>

\* chunk i of Hash::concat: the hasher's bytes xored with the bytes of
\* (i as u64).wrapping_mul(0xc6a4a7935bd1e995)
ConcatChunk(hb, i) ==
    LET mb == WrappingMulBytes(i, MurmurBytes, 1, 0)
    IN <<Xor(hb[1], mb[1]), Xor(hb[2], mb[2]), Xor(hb[3], mb[3]),
         Xor(hb[4], mb[4]), Xor(hb[5], mb[5]), Xor(hb[6], mb[6]),
         Xor(hb[7], mb[7]), Xor(hb[8], mb[8])>>

RECURSIVE ConcatFrom(_, _)
ConcatFrom(hb, i) ==
    IF i >= 8 THEN <<>> ELSE ConcatChunk(hb, i) \o ConcatFrom(hb, i + 1)

\* what Hash::concat writes to the hasher for hashes[lo..hi]: each 64-byte
\* array as its length and its bytes
RECURSIVE ConcatStream(_, _, _)
ConcatStream(hashes, lo, hi) ==
    IF lo > hi THEN <<>>
    ELSE IF lo = hi THEN <<Len(hashes[lo])>> \o hashes[lo]
    ELSE LET mid == (lo + hi) \div 2
         IN ConcatStream(hashes, lo, mid) \o ConcatStream(hashes, mid + 1, hi)

\* Hash::concat
HashConcat(hashes) ==
    IF Len(hashes) = 0 THEN HashNew(<<>>)
    ELSE ConcatFrom(DefaultHasherFinish(<<Len(hashes)>>
                        \o ConcatStream(hashes, 1, Len(hashes))), 0)

\* Hash::xor
HashXor(h1, h2) == [i \in 1..HASH_SIZE |-> Xor(h1[i], h2[i])]

(***************************************************************************)
(* kem.rs                                                                  *)
(***************************************************************************)
KEM_BYTES == 64

\* Kem::keygen, given the bytes OptimizedRng::next_bytes produced
KemKeygen(secret_bytes) ==
    [pk |-> HashNew(secret_bytes), sk |-> secret_bytes]

\* Kem::encapsulate, given the bytes OptimizedRng::next_bytes produced
KemEncapsulate(public_key, ephemeral) ==
    [ct |-> ephemeral, ss |-> HashCombine(ephemeral, public_key)]

\* SecretKey::derive_public_key
DerivePublicKey(secret_key) == HashNew(secret_key)

\* the mutant of Kem::decapsulate: the secret key itself is combined with
\* the ciphertext
KemDecapsulateRawKey(secret_key, ciphertext) ==
    HashCombine(ciphertext, secret_key)

\* the mutant of Kem::decapsulate: the secret key bytes are mixed into the
\* shared secret
KemDecapsulateKeyed(secret_key, ciphertext) ==
    LET public_bytes == HashNew(secret_key)
    IN HashXor(HashCombine(ciphertext, public_bytes), secret_key)

\* Kem::decapsulate
KemDecapsulate(secret_key, ciphertext) ==
    LET public_bytes == HashNew(secret_key)
    IN HashCombine(ciphertext, public_bytes)

(***************************************************************************)
(* fragment.rs                                                             *)
(***************************************************************************)
\* Fragment::new
FragmentNew(index, total, data) ==
    [index |-> index, total |-> total, data |-> data, hash |-> HashNew(data)]

\* the mutant of verify_fast: the stored hash is trusted
VerifyFastTrusting(f) == Len(f.hash) = HASH_SIZE

\* Fragment::verify_fast
VerifyFast(f) == HashNew(f.data) = f.hash

\* Fragment::verify
Verify(f) == VerifyFast(f)

\* the mutant of fragment_data: the bound check is off by one
FragmentDataStrictBound(data) ==
    IF Len(data) = 0 THEN Err("FragmentationError", "empty")
    ELSE LET data_len == Len(data)
             total_fragments == (data_len + FRAGMENT_SIZE - 1) \div FRAGMENT_SIZE
         IN IF total_fragments >= MAX_FRAGMENTS
            THEN Err("FragmentationError", "too_large")
            ELSE Ok([k \in 1..total_fragments |->
                        FragmentNew(k - 1, total_fragments,
                            SubSeq(data, (k - 1) * FRAGMENT_SIZE + 1,
                                   Min(k * FRAGMENT_SIZE, data_len)))])

\* the mutant of fragment_data: fragment indices start at one
FragmentDataOneBased(data) ==
    IF Len(data) = 0 THEN Err("FragmentationError", "empty")
    ELSE LET data_len == Len(data)
             total_fragments == (data_len + FRAGMENT_SIZE - 1) \div FRAGMENT_SIZE
         IN IF total_fragments > MAX_FRAGMENTS
            THEN Err("FragmentationError", "too_large")
            ELSE Ok([k \in 1..total_fragments |->
                        FragmentNew(k, total_fragments,
                            SubSeq(data, (k - 1) * FRAGMENT_SIZE + 1,
                                   Min(k * FRAGMENT_SIZE, data_len)))])

\* the mutant of fragment_data: the number of fragments is
\* len / FRAGMENT_SIZE + 1, with an empty last fragment when the length is
\* a multiple of FRAGMENT_SIZE
FragmentDataExtraChunk(data) ==
    IF Len(data) = 0 THEN Err("FragmentationError", "empty")
    ELSE LET data_len == Len(data)
             total_fragments == (data_len \div FRAGMENT_SIZE) + 1
         IN IF total_fragments > MAX_FRAGMENTS
            THEN Err("FragmentationError", "too_large")
            ELSE Ok([k \in 1..total_fragments |->
                        FragmentNew(k - 1, total_fragments,
                            SubSeq(data, (k - 1) * FRAGMENT_SIZE + 1,
                                   Min(k * FRAGMENT_SIZE, data_len)))])

\* FragmentEngine::fragment_data
FragmentData(data) ==
    IF Len(data) = 0 THEN Err("FragmentationError", "empty")
    ELSE LET data_len == Len(data)
             total_fragments == (data_len + FRAGMENT_SIZE - 1) \div FRAGMENT_SIZE
         IN IF total_fragments > MAX_FRAGMENTS
            THEN Err("FragmentationError", "too_large")
            ELSE Ok([k \in 1..total_fragments |->
                        FragmentNew(k - 1, total_fragments,
                            SubSeq(data, (k - 1) * FRAGMENT_SIZE + 1,
                                   Min(k * FRAGMENT_SIZE, data_len)))])

\* the index mapping of reconstruct_data: slot i holds the position of the
\* last fragment whose index is i, or 0 (None)
FragmentMap(fragments, total_fragments) ==
    [i \in 0..(total_fragments - 1) |->
        LET S == {k \in 1..Len(fragments) : fragments[k].index = i}
        IN IF S = {} THEN 0 ELSE CHOOSE k \in S : \A m \in S : m <= k]

\* what the second loop of reconstruct_data finds wrong in slot i: nothing
\* ("ok"), or the error it returns there
SlotCheck(fragments, fragment_map, total_fragments, i) ==
    IF fragment_map[i] = 0 THEN "missing"
    ELSE LET fragment == fragments[fragment_map[i]]
         IN IF fragment.total # total_fragments THEN "total"
            ELSE IF ~VerifyFast(fragment) THEN "integrity"
            ELSE "ok"

\* the data of the fragments in slots lo..hi, in slot order
RECURSIVE ExtendFromSlots(_, _, _, _)
ExtendFromSlots(fragments, fragment_map, lo, hi) ==
    IF lo > hi THEN <<>>
    ELSE IF lo = hi THEN fragments[fragment_map[lo]].data
    ELSE LET mid == (lo + hi) \div 2
         IN ExtendFromSlots(fragments, fragment_map, lo, mid)
            \o ExtendFromSlots(fragments, fragment_map, mid + 1, hi)

\* the second loop of reconstruct_data: the error of the first slot that
\* fails, or the data of all slots
ReconstructLoop(fragments, fragment_map, total_fragments) ==
    LET bad == {i \in 0..(total_fragments - 1) :
                    SlotCheck(fragments, fragment_map, total_fragments, i) # "ok"}
    IN IF bad # {}
       THEN Err("FragmentationError",
                SlotCheck(fragments, fragment_map, total_fragments,
                          CHOOSE i \in bad : \A m \in bad : i <= m))
       ELSE Ok(ExtendFromSlots(fragments, fragment_map, 0, total_fragments - 1))

\* the mutant of reconstruct_data: fragments are concatenated in the order
\* of the list, not by index
RECURSIVE ConcatInListOrder(_, _, _)
ConcatInListOrder(fragments, lo, hi) ==
    IF lo > hi THEN <<>>
    ELSE IF lo = hi THEN fragments[lo].data
    ELSE LET mid == (lo + hi) \div 2
         IN ConcatInListOrder(fragments, lo, mid)
            \o ConcatInListOrder(fragments, mid + 1, hi)

ReconstructDataListOrder(fragments) ==
    IF Len(fragments) = 0 THEN Err("FragmentationError", "none")
    ELSE LET total_fragments == fragments[1].total
         IN IF Len(fragments) # total_fragments
            THEN Err("FragmentationError", "count")
            ELSE IF \E k \in 1..Len(fragments) : fragments[k].index >= total_fragments
            THEN Err("FragmentationError", "index")
            ELSE LET r == ReconstructLoop(fragments,
                              FragmentMap(fragments, total_fragments),
                              total_fragments)
                 IN IF r.ok THEN Ok(ConcatInListOrder(fragments, 1, Len(fragments))) ELSE r

\* the mutant of reconstruct_data: the fragment at list position k must
\* carry index k
ReconstructDataInOrderOnly(fragments) ==
    IF Len(fragments) = 0 THEN Err("FragmentationError", "none")
    ELSE LET total_fragments == fragments[1].total
         IN IF Len(fragments) # total_fragments
            THEN Err("FragmentationError", "count")
            ELSE IF \E k \in 1..Len(fragments) : fragments[k].index # k - 1
            THEN Err("FragmentationError", "index")
            ELSE ReconstructLoop(fragments,
                                 FragmentMap(fragments, total_fragments),
                                 total_fragments)

\* FragmentEngine::reconstruct_data
ReconstructData(fragments) ==
    IF Len(fragments) = 0 THEN Err("FragmentationError", "none")
    ELSE LET total_fragments == fragments[1].total
         IN IF Len(fragments) # total_fragments
            THEN Err("FragmentationError", "count")
            ELSE IF \E k \in 1..Len(fragments) : fragments[k].index >= total_fragments
            THEN Err("FragmentationError", "index")
            ELSE ReconstructLoop(fragments,
                                 FragmentMap(fragments, total_fragments),
                                 total_fragments)


\* FragmentEngine::fragment_hash_operation
FragmentHashOperation(data) ==
    LET fragments == FragmentData(data)
    IN IF ~fragments.ok THEN fragments
       ELSE Ok([fragments |-> fragments.val,
                combined_hash |->
                    IF Len(fragments.val) = 1 THEN fragments.val[1].hash
                    ELSE HashConcat([k \in 1..Len(fragments.val) |->
                                        fragments.val[k].hash])])

\* FragmentEngine::fragment_kem_encapsulation: the same steps on the bytes
\* of the public key
FragmentKemEncapsulation(public_key) ==
    LET fragments == FragmentData(public_key)
    IN IF ~fragments.ok THEN fragments
       ELSE Ok([fragments |-> fragments.val,
                combined_hash |->
                    IF Len(fragments.val) = 1 THEN fragments.val[1].hash
                    ELSE HashConcat([k \in 1..Len(fragments.val) |->
                                        fragments.val[k].hash])])

\* u32::to_le_bytes of a fragment index
ToLeBytes4(x) ==
    <<x % 256, (x \div 256) % 256, (x \div 65536) % 256, (x \div 16777216) % 256>>

\* MIN_FRAGMENT_THRESHOLD
MIN_FRAGMENT_THRESHOLD == FRAGMENT_SIZE * 2

\* FragmentEngine::estimate_mobile_latency
EstimateMobileLatency(data_size) ==
    IF data_size <= MIN_FRAGMENT_THRESHOLD THEN 5
    ELSE LET fragment_count == (data_size + FRAGMENT_SIZE - 1) \div FRAGMENT_SIZE
             base_latency_per_fragment == 1
             setup_overhead == 3
             available_cores == Min(fragment_count, 6)
             parallel_time ==
                 (fragment_count * base_latency_per_fragment + available_cores - 1)
                     \div available_cores
         IN setup_overhead + parallel_time

\* u32::from_le_bytes
FromLeBytes4(b) == b[1] + 256 * b[2] + 65536 * b[3] + 16777216 * b[4]

\* Fragment::to_bytes
ToBytes(f) ==
    LET data_len == Len(f.data)
    IN ToLeBytes4(f.index) \o ToLeBytes4(f.total) \o ToLeBytes4(data_len)
          \o f.data \o f.hash

\* the mutant of from_bytes: the parsed fragment is returned without the
\* integrity verification
FromBytesUnverified(bytes) ==
    IF Len(bytes) < 76
    THEN Err("FragmentationError", "Invalid fragment bytes")
    ELSE LET index == FromLeBytes4(SubSeq(bytes, 1, 4))
             total == FromLeBytes4(SubSeq(bytes, 5, 8))
             data_len == FromLeBytes4(SubSeq(bytes, 9, 12))
         IN IF Len(bytes) # 12 + data_len + 64
            THEN Err("FragmentationError", "Fragment size mismatch")
            ELSE Ok([index |-> index, total |-> total,
                     data |-> SubSeq(bytes, 13, 12 + data_len),
                     hash |-> SubSeq(bytes, 13 + data_len, 12 + data_len + 64)])

\* Fragment::from_bytes
FromBytes(bytes) ==
    IF Len(bytes) < 76
    THEN Err("FragmentationError", "Invalid fragment bytes")
    ELSE LET index == FromLeBytes4(SubSeq(bytes, 1, 4))
             total == FromLeBytes4(SubSeq(bytes, 5, 8))
             data_len == FromLeBytes4(SubSeq(bytes, 9, 12))
         IN IF Len(bytes) # 12 + data_len + 64
            THEN Err("FragmentationError", "Fragment size mismatch")
            ELSE LET fragment ==
                         [index |-> index, total |-> total,
                          data |-> SubSeq(bytes, 13, 12 + data_len),
                          hash |-> SubSeq(bytes, 13 + data_len,
                                          12 + data_len + 64)]
                 IN IF ~VerifyFast(fragment)
                    THEN Err("FragmentationError",
                             "Fragment integrity check failed")
                    ELSE Ok(fragment)

\* FragmentEngine::process_single_fragment_optimized
ProcessSingleFragmentOptimized(fragment) ==
    HashXor(fragment.hash, HashNew(ToLeBytes4(fragment.index)))

\* FragmentEngine::process_fragmented_kem, fragments lo..hi
RECURSIVE ProcessFrom(_, _, _)
ProcessFrom(fragments, lo, hi) ==
    IF lo > hi THEN <<>>
    ELSE IF lo = hi THEN ProcessSingleFragmentOptimized(fragments[lo])
    ELSE LET mid == (lo + hi) \div 2
         IN ProcessFrom(fragments, lo, mid) \o ProcessFrom(fragments, mid + 1, hi)

\* the mutant of process_fragmented_kem: the result of a fragment is mixed
\* with the result of the fragment before it
RECURSIVE ProcessChainedFrom(_, _, _)
ProcessChainedFrom(fragments, k, previous) ==
    IF k > Len(fragments) THEN <<>>
    ELSE LET processed_fragment ==
                 HashXor(ProcessSingleFragmentOptimized(fragments[k]), previous)
         IN processed_fragment
               \o ProcessChainedFrom(fragments, k + 1, processed_fragment)

ProcessFragmentedKemChained(fragmented_result) ==
    Ok(ProcessChainedFrom(fragmented_result.fragments, 1,
                          [i \in 1..HASH_SIZE |-> 0]))

ProcessFragmentedKem(fragmented_result) ==
    Ok(ProcessFrom(fragmented_result.fragments, 1,
                   Len(fragmented_result.fragments)))

(***************************************************************************)
(* utils.rs                                                                *)
(***************************************************************************)
\* Rust's % on i32: the remainder has the sign of the dividend
RustRem(x, m) == IF x >= 0 THEN x % m ELSE 0 - ((0 - x) % m)

\* the mutant of create_seeded_rng: the generator is seeded from all bytes
CreateSeededRngWholeSeed(seed) ==
    IF Len(seed) < 32
    THEN Err("RandomGeneration", "seed_too_short")
    ELSE Ok(seed)

\* the mutant of create_seeded_rng: a short seed is padded with zeros
CreateSeededRngPadded(seed) ==
    Ok([i \in 1..32 |-> IF i <= Len(seed) THEN seed[i] ELSE 0])

\* create_seeded_rng: the result is the 32-byte array given to
\* ChaCha20Rng::from_seed
CreateSeededRng(seed) ==
    IF Len(seed) < 32
    THEN Err("RandomGeneration", "seed_too_short")
    ELSE Ok(SubSeq(seed, 1, 32))

\* encode_matrix
EncodeMatrix(matrix) ==
    LET rows == Len(matrix)
        cols == IF rows > 0 THEN Len(matrix[1]) ELSE 0
    IN [k \in 1..(rows * cols * 2) |->
            LET entry == (k - 1) \div 2
                val == matrix[(entry \div cols) + 1][(entry % cols) + 1]
                u16 == val % U16_RANGE
            IN IF (k - 1) % 2 = 0 THEN u16 % 256 ELSE u16 \div 256]

\* the mutant of decode_matrix: bytes of any other length than
\* rows*cols*2 are refused
DecodeMatrixExactLen(bytes, rows, cols) ==
    IF Len(bytes) # rows * cols * 2
    THEN Err("InvalidParameter", "too_small")
    ELSE Ok([i \in 1..rows |-> [j \in 1..cols |->
                LET idx == 2 * ((i - 1) * cols + (j - 1))
                IN bytes[idx + 1] + 256 * bytes[idx + 2]]])

\* decode_matrix
DecodeMatrix(bytes, rows, cols) ==
    IF Len(bytes) < rows * cols * 2
    THEN Err("InvalidParameter", "too_small")
    ELSE Ok([i \in 1..rows |-> [j \in 1..cols |->
                LET idx == 2 * ((i - 1) * cols + (j - 1))
                IN bytes[idx + 1] + 256 * bytes[idx + 2]]])

\* mod_add
ModAdd(a, b) == (a + b) % Q

\* the mutant of mod_sub: a - (b % Q) in wrapping u32 arithmetic, without
\* the + Q; a borrow adds 2^32, which is 1 modulo Q
ModSubWrapping(a, b) ==
    IF a >= b % Q THEN (a - (b % Q)) % Q ELSE (a - (b % Q) + 1) % Q

\* mod_sub
ModSub(a, b) == (a + Q - (b % Q)) % Q

\* the values mod_add and mod_sub hold in a u32 on the way to their result
ModAddSteps(a, b) == {a, b, a + b}
ModSubSteps(a, b) == {a, b, b % Q, a + Q, a + Q - (b % Q)}

\* mod_mul: (a as u64 * b as u64) % Q, the product taken by halves of a so
\* that no intermediate value leaves the integers of the model checker
ModMul(a, b) ==
    ((((a \div 256) * b) % Q) * 256 + (a % 256) * b) % Q

\* random_matrix, given the values sample_uniform returns in call order
RandomMatrix(uniform, rows, cols) ==
    [i \in 1..rows |-> [j \in 1..cols |-> uniform[(i - 1) * cols + j]]]

\* random_error_vector, given the values sample_gaussian returns in call
\* order
RandomErrorVector(gaussian, n) ==
    [i \in 1..n |-> RustRem(RustRem(gaussian[i], Q) + Q, Q)]

(***************************************************************************)
(* lwe.rs                                                                  *)
(***************************************************************************)
\* the accumulation  acc = mod_add(acc, mod_mul(x[k], y[k]))  for k up to N
RECURSIVE DotFrom(_, _, _, _)
DotFrom(x, y, k, acc) ==
    IF k > N THEN acc
    ELSE DotFrom(x, y, k + 1, ModAdd(acc, ModMul(x[k], y[k])))

\* the u32 values of the same accumulation: each product, and each sum
\* before its reduction
RECURSIVE DotSteps(_, _, _, _)
DotSteps(x, y, k, acc) ==
    IF k > N THEN {acc}
    ELSE ModAddSteps(acc, ModMul(x[k], y[k]))
            \cup DotSteps(x, y, k + 1, ModAdd(acc, ModMul(x[k], y[k])))

\* column j of a matrix
Column(a, j) == [i \in 1..Len(a) |-> a[i][j]]

\* keygen_with_seed; key_draws maps the array a generator is seeded from to
\* the values its first N*N sample_uniform calls (uniform) and the 2N
\* sample_gaussian calls after them (s, e) return
\* the mutant of keygen_with_seed: the error vector is drawn before the
\* secret
KeygenWithSeedErrorFirst(seed, key_draws) ==
    LET rng == CreateSeededRng(seed)
    IN IF ~rng.ok THEN rng
       ELSE LET a == RandomMatrix(key_draws[rng.val].uniform, N, N)
                e == RandomErrorVector(key_draws[rng.val].s, N)
                s == RandomErrorVector(key_draws[rng.val].e, N)
                b == [i \in 1..N |-> ModAdd(DotFrom(a[i], s, 1, 0), e[i])]
            IN Ok([a |-> a, b |-> b, s |-> s])

\* keygen_with_seed, given what each generator yields: the N*N values of
\* sample_uniform, then the values of sample_gaussian for s, then for e
KeygenWithSeed(seed, key_draws) ==
    LET rng == CreateSeededRng(seed)
    IN IF ~rng.ok THEN rng
       ELSE LET a == RandomMatrix(key_draws[rng.val].uniform, N, N)
                s == RandomErrorVector(key_draws[rng.val].s, N)
                e == RandomErrorVector(key_draws[rng.val].e, N)
                b == [i \in 1..N |-> ModAdd(DotFrom(a[i], s, 1, 0), e[i])]
            IN Ok([a |-> a, b |-> b, s |-> s])

\* u32::ilog2
RECURSIVE Ilog2(_)
Ilog2(x) == IF x < 2 THEN 0 ELSE 1 + Ilog2(x \div 2)

\* the bytes of a message packed little-endian into one integer
RECURSIVE PackLe(_, _)
PackLe(message, k) ==
    IF k > Len(message) THEN 0
    ELSE message[k] + 256 * PackLe(message, k + 1)

\* encrypt; enc_draws maps the array a generator is seeded from to the
\* values its first N sample_gaussian calls return
Encrypt(public_key_bytes, message, seed, enc_draws) ==
    LET a_size == N * N * 2
        b_size == N * 2
    IN IF Len(public_key_bytes) < a_size + b_size
       THEN Err("InvalidKeyFormat", "public_key_too_short")
       ELSE
       LET a == DecodeMatrix(SubSeq(public_key_bytes, 1, a_size), N, N).val
           b == DecodeMatrix(SubSeq(public_key_bytes, a_size + 1,
                                    a_size + b_size), 1, N).val[1]
           rng == CreateSeededRng(seed)
       IN IF ~rng.ok THEN rng
          ELSE
          LET r == RandomErrorVector(enc_draws[rng.val], N)
              v == [j \in 1..N |-> DotFrom(r, Column(a, j), 1, 0)]
              c == DotFrom(r, b, 1, 0)
              message_bits == Len(message) * 8
              bits_per_coeff == Ilog2(Q) - 1
              coeffs_needed ==
                  (message_bits + bits_per_coeff - 1) \div bits_per_coeff
          IN IF coeffs_needed > 1
             THEN Err("Encapsulation", "message_too_large")
             ELSE LET message_val == PackLe(message, 1)
                      scaling_factor == Q \div 256
                      encoded_message == (message_val * scaling_factor) % Q
                  IN Ok(Append(v, ModAdd(c, encoded_message)))

\* the mutant of the arithmetic of encrypt: v[j] is accumulated with r[j]
\* in place of r[i]
EncryptValuesIndexSlip(a, b, r, message) ==
    LET v == [j \in 1..N |->
                DotFrom([i \in 1..N |-> r[j]], Column(a, j), 1, 0)]
        c == DotFrom(r, b, 1, 0)
        message_val == PackLe(message, 1)
        scaling_factor == Q \div 256
        encoded_message == (message_val * scaling_factor) % Q
    IN Append(v, ModAdd(c, encoded_message))

\* the arithmetic of encrypt on the decoded key: v = r.A and
\* c = r.b + encode(message)
EncryptValues(a, b, r, message) ==
    LET v == [j \in 1..N |-> DotFrom(r, Column(a, j), 1, 0)]
        c == DotFrom(r, b, 1, 0)
        message_val == PackLe(message, 1)
        scaling_factor == Q \div 256
        encoded_message == (message_val * scaling_factor) % Q
    IN Append(v, ModAdd(c, encoded_message))

\* the arithmetic of decrypt on the decoded ciphertext: m = c - v.s
DecryptValues(ciphertext, s) ==
    LET v == SubSeq(ciphertext, 1, N)
        c == ciphertext[N + 1]
    IN ModSub(c, DotFrom(v, s, 1, 0))

\* the bytes decrypt pushes for message_val: at least one, low byte first
RECURSIVE UnpackLe(_)
UnpackLe(remaining) ==
    IF remaining < 256 THEN <<remaining>>
    ELSE <<remaining % 256>> \o UnpackLe(remaining \div 256)

\* decrypt: the value m = c - v.s it recovers
DecryptValue(ciphertext_bytes, secret_key_bytes) ==
    LET ciphertext == DecodeMatrix(ciphertext_bytes, 1, N + 1).val[1]
        v == SubSeq(ciphertext, 1, N)
        c == ciphertext[N + 1]
        s == DecodeMatrix(secret_key_bytes, 1, N).val[1]
    IN ModSub(c, DotFrom(v, s, 1, 0))

\* decrypt: the rounding step, message_val from m
MessageVal(m) ==
    LET scaling_factor == Q \div 256
    IN (m + scaling_factor \div 2) \div scaling_factor

\* the mutant of decrypt: the rounding step truncates instead of rounding
\* to nearest
DecryptTruncating(ciphertext_bytes, secret_key_bytes) ==
    IF Len(ciphertext_bytes) < (N + 1) * 2
    THEN Err("InvalidCiphertextFormat", "ciphertext_too_short")
    ELSE IF Len(secret_key_bytes) < N * 2
    THEN Err("InvalidKeyFormat", "secret_key_too_short")
    ELSE LET m == DecryptValue(ciphertext_bytes, secret_key_bytes)
         IN Ok(UnpackLe(m \div (Q \div 256)))

\* decrypt
Decrypt(ciphertext_bytes, secret_key_bytes) ==
    IF Len(ciphertext_bytes) < (N + 1) * 2
    THEN Err("InvalidCiphertextFormat", "ciphertext_too_short")
    ELSE IF Len(secret_key_bytes) < N * 2
    THEN Err("InvalidKeyFormat", "secret_key_too_short")
    ELSE LET m == DecryptValue(ciphertext_bytes, secret_key_bytes)
         IN Ok(UnpackLe(MessageVal(m)))

(***************************************************************************)
(* The KEM over the LWE engine and the fragmented key exchange.  Their     *)
(* code is not in the repository's sources (examples and benches call      *)
(* topayz512::{keygen, encapsulate, decapsulate} and topayz512::fragmented);*)
(* they follow sections 3, 4.3-4.5 and 4.7 of the specification and call   *)
(* the LWE engine above.                                                   *)
(***************************************************************************)
\* utils::hash (SHA3-512, outside the repository), kept symbolic: two
\* digests are equal exactly when their inputs are
Sha3_512(message) == [sha3_512 |-> message]

\* the part of the message the single coefficient carries: its first byte
Residue(message) == SubSeq(message, 1, 1)

\* keygen(): a fresh 32-byte seed, the LWE key pair of that seed, the keys
\* serialized as A || b || seed and s || seed
PlainKeygen(seed, key_draws) ==
    LET key == KeygenWithSeed(seed, key_draws)
    IN IF ~key.ok THEN key
       ELSE Ok([pk |-> EncodeMatrix(key.val.a) \o EncodeMatrix(<<key.val.b>>) \o seed,
                sk |-> EncodeMatrix(<<key.val.s>>) \o seed])

\* encapsulate(pk): a fresh message and ephemeral seed; the ciphertext is
\* v || c || message and the shared secret hash(message)
PlainEncapsulate(pk, message, seed, enc_draws) ==
    LET enc == Encrypt(SubSeq(pk, 1, N * N * 2 + N * 2), Residue(message),
                       seed, enc_draws)
    IN IF ~enc.ok THEN enc
       ELSE Ok([ct |-> [vc |-> EncodeMatrix(<<enc.val>>), message |-> message],
                ss |-> Sha3_512(message)])

\* decapsulate(sk, ct): the recovered bytes must equal the bytes the
\* ciphertext carries
PlainDecapsulate(sk, ct) ==
    LET dec == Decrypt(ct.vc, SubSeq(sk, 1, N * 2))
    IN IF ~dec.ok THEN dec
       ELSE IF dec.val # Residue(ct.message)
       THEN Err("Decapsulation", "invalid_ciphertext")
       ELSE Ok(Sha3_512(ct.message))

\* the results of the components, or the error of the first that failed
Collect(results) ==
    LET failed == {k \in 1..Len(results) : ~results[k].ok}
    IN IF failed = {}
       THEN Ok([k \in 1..Len(results) |-> results[k].val])
       ELSE results[CHOOSE k \in failed : \A j \in failed : k <= j]

\* fragmented keygen(K); seeds[k] and key_draws serve the k-th keygen()
FragmentedKeygen(K, seeds, key_draws) ==
    IF K < MIN_FRAGMENTS \/ K > PARAMS_MAX_FRAGMENTS
    THEN Err("FragmentationError", "fragment_count_bound")
    ELSE LET pairs == Collect([k \in 1..K |-> PlainKeygen(seeds[k], key_draws)])
         IN IF ~pairs.ok THEN pairs
            ELSE Ok([fpk |-> [k \in 1..K |-> pairs.val[k].pk],
                     fsk |-> [k \in 1..K |-> pairs.val[k].sk]])

\* fragmented encapsulate(fpk)
FragmentedEncapsulate(fpk, messages, seeds, enc_draws) ==
    LET parts == Collect([k \in 1..Len(fpk) |->
                    PlainEncapsulate(fpk[k], messages[k], seeds[k], enc_draws)])
    IN IF ~parts.ok THEN parts
       ELSE Ok([fct |-> [k \in 1..Len(fpk) |-> parts.val[k].ct],
                ss |-> Sha3_512([k \in 1..Len(fpk) |-> parts.val[k].ss])])

\* fragmented decapsulate(fsk, fct)
FragmentedDecapsulate(fsk, fct) ==
    IF Len(fsk) # Len(fct)
    THEN Err("FragmentationError", "fragment_count_mismatch")
    ELSE LET parts == Collect([k \in 1..Len(fsk) |->
                         PlainDecapsulate(fsk[k], fct[k])])
         IN IF ~parts.ok THEN parts
            ELSE Ok(Sha3_512(parts.val))

(***************************************************************************)
(* State                                                                   *)
(***************************************************************************)
VARIABLES
    f_pc,       \* fragment engine: which operation ran last
    f_data,     \* the buffer handed to fragment_data
    f_frags,    \* the result of fragment_data
    f_list,     \* the fragment list handed to reconstruct_data
    f_recon,    \* the result of reconstruct_data
    f_tamper,   \* what was changed in a fragment after its creation
    f_perm      \* the same fragments in another order, and their
                \* reconstruct_data

fragVars == <<f_pc, f_data, f_frags, f_list, f_recon, f_tamper, f_perm>>

VARIABLES
    k_pc,       \* hash-based Kem: which operation ran last
    k_pk,       \* the public key of keygen
    k_sk,       \* the secret key of keygen
    k_ct,       \* the ciphertext of encapsulate
    k_ss_enc,   \* the shared secret of encapsulate
    k_ss_dec,   \* the shared secret of decapsulate
    k_eph,      \* the ephemeral bytes encapsulate drew
    k_other     \* another secret key and its decapsulate of the same
                \* ciphertext

kemVars == <<k_pc, k_pk, k_sk, k_ct, k_ss_enc, k_ss_dec, k_eph, k_other>>

VARIABLES
    l_pc,       \* LWE engine: which operation ran last
    l_chacha,   \* the ChaCha20 streams drawn so far, by seed array
    l_seeds,    \* the seeds of the keygen_with_seed calls, in call order
    l_keys,     \* the results of the keygen_with_seed calls, in call order
    l_msg,      \* the message given to encrypt
    l_eseed,    \* the seed given to encrypt
    l_enc,      \* the result of encrypt
    l_dec,      \* the result of decrypt
    l_codec,    \* the matrix given to encode_matrix and what came back
    l_probe     \* a call with hand-made arguments: what was given and returned

lweVars == <<l_pc, l_chacha, l_seeds, l_keys, l_msg, l_eseed, l_enc, l_dec,
             l_codec, l_probe>>

VARIABLES
    x_pc,       \* fragmented key exchange: which operation ran last
    x_k,        \* the fragment count given to keygen
    x_keys,     \* the result of fragmented keygen
    x_enc,      \* the result of fragmented encapsulate
    x_dec,      \* the result of fragmented decapsulate
    x_plain     \* one plain key exchange: keys, encapsulation, the ciphertext
                \* given to decapsulate and its result

fkemVars == <<x_pc, x_k, x_keys, x_enc, x_dec, x_plain>>

VARIABLES
    o_pc,       \* further calls into fragment.rs: which one ran last
    o_arg,      \* its argument
    o_res,      \* its result
    o_next,     \* the result of the call that consumed o_res
    o_frag,     \* the fragment Fragment::new returned
    o_wire,     \* its to_bytes
    o_parsed,   \* the bytes handed to from_bytes and what it returned
    o_slots,    \* per-fragment results of workers, by fragment index
    o_par,      \* the worker results collected by index
    o_lat       \* the calls of estimate_mobile_latency: size and result

fopVars == <<o_pc, o_arg, o_res, o_next, o_frag, o_wire, o_parsed, o_slots,
             o_par, o_lat>>

VARIABLES
    kp_pc,      \* keypair.rs and the zeroing calls: which one ran last
    kp_pairs,   \* the key pairs the last constructor returned
    kp_ok,      \* verify() of each of them
    kp_obj      \* the secret a zeroize or a drop acted on, before and after

keyVars == <<kp_pc, kp_pairs, kp_ok, kp_obj>>

\* what an operation of one part leaves alone: the state of the other parts
FragFrame == UNCHANGED <<kemVars, lweVars, fkemVars, fopVars, keyVars>>
KemFrame == UNCHANGED <<fragVars, lweVars, fkemVars, fopVars, keyVars>>
LweFrame == UNCHANGED <<fragVars, kemVars, fkemVars, fopVars, keyVars>>
FkemFrame == UNCHANGED <<fragVars, kemVars, lweVars, fopVars, keyVars>>
FopFrame == UNCHANGED <<fragVars, kemVars, lweVars, fkemVars, keyVars>>
KeyFrame == UNCHANGED <<fragVars, kemVars, lweVars, fkemVars, fopVars>>

NotRun == [ok |-> FALSE, err |-> "NotRun", why |-> "not_run"]
NoTamper == [k |-> 0, pos |-> 0, mode |-> "none", verify |-> TRUE]

(***************************************************************************)
(* keypair.rs, and the zeroing of secrets in kem.rs and lib.rs             *)
(***************************************************************************)
PRIVATE_KEY_SIZE == 64
PUBLIC_KEY_SIZE == 64

\* PrivateKey::public_key: byte i is
\* base.wrapping_mul(0x9E).wrapping_add(0x37).wrapping_mul(i as u8)
\*     .wrapping_add(0x5A)
PrivateKeyPublicKey(bytes) ==
    [p \in 1..PUBLIC_KEY_SIZE |->
        LET i == p - 1
            private_idx == i % PRIVATE_KEY_SIZE
            base == bytes[private_idx + 1]
        IN ((((((base * 158) % 256) + 55) % 256) * (i % 256)) + 90) % 256]

\* PublicKey::verify_derivation
VerifyDerivation(public_key, private_key) ==
    LET derived == PrivateKeyPublicKey(private_key)
    IN public_key = derived

\* KeyPair::generate, given the bytes OptimizedRng::fill_bytes produced
KeyPairGenerate(fill) ==
    [private_key |-> fill, public_key |-> PrivateKeyPublicKey(fill)]

\* the mutant of from_private_key: the public key is the private bytes
KeyPairFromPrivateKeyCopy(private_key) ==
    [private_key |-> private_key, public_key |-> private_key]

\* KeyPair::from_private_key
KeyPairFromPrivateKey(private_key) ==
    [private_key |-> private_key,
     public_key |-> PrivateKeyPublicKey(private_key)]

\* KeyPair::batch_generate, given the bytes of each fill_bytes call
KeyPairBatchGenerate(fills) ==
    [k \in 1..Len(fills) |->
        [private_key |-> fills[k],
         public_key |-> PrivateKeyPublicKey(fills[k])]]

\* KeyPair::verify
KeyPairVerify(kp) == VerifyDerivation(kp.public_key, kp.private_key)

\* <[u8]>::fill(0)
Fill0(bytes) == [i \in 1..Len(bytes) |-> 0]

\* the mutant of PrivateKey::zeroize: the bytes are left as they are
PrivateKeyZeroizeSkipped(bytes) == bytes

\* PrivateKey::zeroize
PrivateKeyZeroize(bytes) == Fill0(bytes)

\* the mutant of KeyPair::zeroize: the public key is derived again from the
\* zeroed private key
KeyPairZeroizeRederived(kp) ==
    [private_key |-> PrivateKeyZeroize(kp.private_key),
     public_key |-> PrivateKeyPublicKey(PrivateKeyZeroize(kp.private_key))]

\* KeyPair::zeroize
KeyPairZeroize(kp) ==
    [kp EXCEPT !.private_key = PrivateKeyZeroize(@)]

\* SecretKey::zeroize
SecretKeyZeroize(bytes) == Fill0(bytes)

\* SharedSecret::zeroize
SharedSecretZeroize(bytes) == Fill0(bytes)

\* utils::secure_zero: a volatile write of 0 to every byte, from k on
RECURSIVE SecureZeroFrom(_, _)
SecureZeroFrom(data, k) ==
    IF k > Len(data) THEN data
    ELSE SecureZeroFrom([data EXCEPT ![k] = 0], k + 1)

SecureZero(data) == SecureZeroFrom(data, 1)

\* Drop for PrivateKey, SecretKey, SharedSecret: the bytes at release
PrivateKeyDrop(bytes) == PrivateKeyZeroize(bytes)
SecretKeyDrop(bytes) == SecretKeyZeroize(bytes)
SharedSecretDrop(bytes) == SharedSecretZeroize(bytes)

\* Drop for KeyPair: its own drop, then the drop of its private_key field
KeyPairDrop(kp) ==
    LET zeroized == KeyPairZeroize(kp)
    IN [zeroized EXCEPT !.private_key = PrivateKeyDrop(@)]

(***************************************************************************)
(* Inputs of the fragment engine                                           *)
(***************************************************************************)
ShortBuffers == UNION {SeqsOfLen(n) : n \in 0..ShortLen}

\* buffers around the MAX_FRAGMENTS limit: a, a+b, a+2b, ... modulo ByteMax+1
PatternBuffer(n, a, b) == [i \in 1..n |-> (a + b * (i - 1)) % (ByteMax + 1)]

LongLens == ((MAX_FRAGMENTS - 1) * FRAGMENT_SIZE)..(MAX_FRAGMENTS * FRAGMENT_SIZE + 1)

LongBuffers == {PatternBuffer(n, a, 1) : n \in LongLens, a \in ByteVals}

Buffers == ShortBuffers \cup LongBuffers

\* a fragment list that did not come out of fragment_data: n fragments with
\* the given indices, totals, one-byte payloads and digests (the digest of
\* the payload or of another one)
ListOf(n, idx, tot, dat, dig) ==
    [k \in 1..n |-> [index |-> idx[k], total |-> tot[k],
                     data |-> <<dat[k]>>, hash |-> HashNew(<<dig[k]>>)]]

Reverse(s) == [i \in 1..Len(s) |-> s[Len(s) + 1 - i]]

\* the fragments of a long list that get tampered with
TamperTargets(n) == {k \in 1..n : k <= 3 \/ k = n}

(***************************************************************************)
(* Operations of the fragment engine                                       *)
(***************************************************************************)
FragInit ==
    /\ f_pc = "idle"
    /\ f_data = <<>>
    /\ f_frags = NotRun
    /\ f_list = <<>>
    /\ f_recon = NotRun
    /\ f_tamper = NoTamper
    /\ f_perm = [list |-> <<>>, result |-> NotRun]

\* a caller fragments a buffer
DoFragmentData ==
    /\ f_pc = "idle"
    /\ \E d \in Buffers :
        /\ f_data' = d
        /\ f_frags' = FragmentData(d)
    /\ f_pc' = "fragmented"
    /\ UNCHANGED <<f_list, f_recon, f_tamper, f_perm>>
    /\ FragFrame

\* the fragments are handed back to reconstruct_data as they are
DoReconstruct ==
    /\ f_pc = "fragmented"
    /\ f_frags.ok
    /\ f_list' = f_frags.val
    /\ f_recon' = ReconstructData(f_frags.val)
    /\ f_pc' = "reconstructed"
    /\ UNCHANGED <<f_data, f_frags, f_tamper, f_perm>>
    /\ FragFrame

\* one byte of one fragment's data is overwritten (fragment.data[pos] = v),
\* then the fragment is verified and a list containing it is reconstructed
DoTamper ==
    /\ f_pc = "fragmented"
    /\ f_frags.ok
    /\ \E k \in TamperTargets(Len(f_frags.val)) :
       \E pos \in 1..Len(f_frags.val[k].data) :
       \E v \in ByteVals \ {f_frags.val[k].data[pos]} :
       \E mode \in {"in_place", "reversed", "alone"} :
          LET old == f_frags.val[k]
              bad == [old EXCEPT !.data[pos] = v]
              lst == [f_frags.val EXCEPT ![k] = bad]
              given == CASE mode = "in_place" -> lst
                         [] mode = "reversed" -> Reverse(lst)
                         [] OTHER -> <<bad>>
          IN /\ f_list' = given
             /\ f_recon' = ReconstructData(given)
             /\ f_tamper' = [k |-> k, pos |-> pos, mode |-> mode,
                             verify |-> Verify(bad)]
    /\ f_pc' = "tampered"
    /\ UNCHANGED <<f_data, f_frags, f_perm>>
    /\ FragFrame

\* reconstruct_data is called on a list that did not come from fragment_data
DoReconstructList ==
    /\ f_pc = "idle"
    /\ \E n \in 0..MaxListLen :
       \E idx \in [1..n -> 0..n] :
       \E tot \in [1..n -> {n, n + 1}] :
       \E dat \in [1..n -> {0, 1}] :
       \E dig \in [1..n -> {0, 1}] :
          LET l == ListOf(n, idx, tot, dat, dig)
          IN /\ f_list' = l
             /\ f_recon' = ReconstructData(l)
    /\ f_pc' = "list_reconstructed"
    /\ UNCHANGED <<f_data, f_frags, f_tamper, f_perm>>
    /\ FragFrame

\* the orders a list of n fragments can arrive in: every order of a short
\* list; of a long one the reverse, the rotation by one and the exchange of
\* the first two
Orders(n) ==
    IF n <= MaxListLen + 1 THEN Permutations(1..n)
    ELSE {[k \in 1..n |-> n + 1 - k],
          [k \in 1..n |-> (k % n) + 1],
          [k \in 1..n |-> IF k = 1 THEN 2 ELSE IF k = 2 THEN 1 ELSE k]}

\* the fragments of the last reconstruct_data arrive in another order
DoReconstructPermuted ==
    /\ f_pc \in {"reconstructed", "tampered", "list_reconstructed"}
    /\ \E order \in Orders(Len(f_list)) :
        LET permuted == [k \in 1..Len(f_list) |-> f_list[order[k]]]
        IN f_perm' = [list |-> permuted, result |-> ReconstructData(permuted)]
    /\ f_pc' = "permuted"
    /\ UNCHANGED <<f_data, f_frags, f_list, f_recon, f_tamper>>
    /\ FragFrame

FragNext ==
    \/ DoReconstructPermuted
    \/ DoFragmentData
    \/ DoReconstruct
    \/ DoTamper
    \/ DoReconstructList


(***************************************************************************)
(* Operations of the hash-based Kem                                        *)
(***************************************************************************)
\* the 64-byte arrays the generator of the model produces: a first byte, a
\* last byte, and a filler in between
KemArray(a, b, c) ==
    [i \in 1..KEM_BYTES |-> IF i = 1 THEN a ELSE IF i = KEM_BYTES THEN c ELSE b]

KemArrays == {KemArray(a, b, c) : a \in ByteVals, b \in ByteVals, c \in ByteVals}

KemIdle ==
    /\ k_pc = "idle"
    /\ k_pk = <<>>
    /\ k_sk = <<>>
    /\ k_ct = <<>>
    /\ k_ss_enc = <<>>
    /\ k_ss_dec = <<>>
    /\ k_eph = <<>>
    /\ k_other = [sk |-> <<>>, ss |-> <<>>]

DoKemKeygen ==
    /\ k_pc = "idle"
    /\ \E secret_bytes \in KemArrays :
        /\ k_pk' = KemKeygen(secret_bytes).pk
        /\ k_sk' = KemKeygen(secret_bytes).sk
    /\ k_pc' = "keyed"
    /\ UNCHANGED <<k_ct, k_ss_enc, k_ss_dec, k_eph, k_other>>
    /\ KemFrame

DoKemEncapsulate ==
    /\ k_pc = "keyed"
    /\ \E ephemeral \in KemArrays :
        /\ k_ct' = KemEncapsulate(k_pk, ephemeral).ct
        /\ k_ss_enc' = KemEncapsulate(k_pk, ephemeral).ss
        /\ k_eph' = ephemeral
    /\ k_pc' = "encapsulated"
    /\ UNCHANGED <<k_pk, k_sk, k_ss_dec, k_other>>
    /\ KemFrame

DoKemDecapsulate ==
    /\ k_pc = "encapsulated"
    /\ k_ss_dec' = KemDecapsulate(k_sk, k_ct)
    /\ k_pc' = "decapsulated"
    /\ UNCHANGED <<k_pk, k_sk, k_ct, k_ss_enc, k_eph, k_other>>
    /\ KemFrame

\* Kem::decapsulate of the same ciphertext under a secret key that is the
\* first one or differs from it in its first byte
DoKemDecapsulateOther ==
    /\ k_pc = "decapsulated"
    /\ \E secret_key \in {KemArray(a, k_sk[2], k_sk[KEM_BYTES]) : a \in ByteVals} :
        k_other' = [sk |-> secret_key,
                    ss |-> KemDecapsulate(secret_key, k_ct)]
    /\ k_pc' = "decapsulated_other"
    /\ UNCHANGED <<k_pk, k_sk, k_ct, k_ss_enc, k_ss_dec, k_eph>>
    /\ KemFrame

KemNext ==
    \/ DoKemDecapsulateOther
    \/ DoKemKeygen
    \/ DoKemEncapsulate
    \/ DoKemDecapsulate

(***************************************************************************)
(* Operations of the LWE engine                                            *)
(***************************************************************************)
\* seeds of SEED_LENGTH - 1, SEED_LENGTH and SEED_LENGTH + 1 bytes that
\* differ in byte 32 (p) and in the byte after it (q)
SeedOf(len, p, q) ==
    [i \in 1..len |-> IF i = 32 THEN p ELSE IF i > 32 THEN q ELSE 7]

Seeds ==
    {SeedOf(len, p, q) : len \in (SEED_LENGTH - 1)..(SEED_LENGTH + 1),
                         p \in {0, 1}, q \in {0, 1}}

\* a vector of N entries: x first, y elsewhere
VecOf(x, y) == [i \in 1..N |-> IF i = 1 THEN x ELSE y]

\* N*N values in row order: x on the diagonal, y elsewhere
DiagOf(x, y) ==
    [k \in 1..(N * N) |-> IF (k - 1) \div N = (k - 1) % N THEN x ELSE y]

\* what a ChaCha20 stream can yield to keygen_with_seed: sample_uniform
\* returns values of 0..Q-1, sample_gaussian small signed integers
KeyDraws ==
    {[uniform |-> DiagOf(x, y), s |-> VecOf(g, 1), e |-> VecOf(h, 0)] :
        x \in {1, Q - 1}, y \in {0, 2}, g \in {-1, 0, 1}, h \in {-1, 0, 2}}

\* what a ChaCha20 stream can yield to encrypt
EncDraws == {VecOf(g, 1) : g \in {-1, 0, 1}}

Messages ==
    {<<>>, <<0>>, <<1>>, <<255>>, <<1, 0>>, <<1, 2, 3>>}

\* a rows x cols matrix: x in the first entry, y elsewhere
MatrixOf(rows, cols, x, y) ==
    [i \in 1..rows |-> [j \in 1..cols |-> IF i = 1 /\ j = 1 THEN x ELSE y]]

CodecVals == {0, 1, 255, 256, U16_RANGE - 1, Q - 1}

\* a stream is drawn when a seed array is used for the first time and is
\* the same ever after
Drawn(table, key, draws) ==
    IF key \in DOMAIN table THEN table ELSE (key :> draws) @@ table

LweIdle ==
    /\ l_pc = "idle"
    /\ l_chacha = [keygen |-> <<>>, encrypt |-> <<>>]
    /\ l_seeds = <<>>
    /\ l_keys = <<>>
    /\ l_msg = <<>>
    /\ l_eseed = <<>>
    /\ l_enc = NotRun
    /\ l_dec = NotRun
    /\ l_codec = [matrix |-> <<>>, result |-> NotRun]
    /\ l_probe = [op |-> "none"]

DoKeygenWithSeed ==
    /\ l_pc \in {"idle", "keyed"}
    /\ \E seed \in Seeds, draws \in KeyDraws :
        LET rng == CreateSeededRng(seed)
            table == IF rng.ok THEN Drawn(l_chacha.keygen, rng.val, draws)
                     ELSE l_chacha.keygen
        IN /\ l_chacha' = [l_chacha EXCEPT !.keygen = table]
           /\ l_seeds' = Append(l_seeds, seed)
           /\ l_keys' = Append(l_keys, KeygenWithSeed(seed, table))
    /\ l_pc' = IF l_pc = "idle" THEN "keyed" ELSE "keyed_twice"
    /\ UNCHANGED <<l_msg, l_eseed, l_enc, l_dec, l_codec, l_probe>>
    /\ LweFrame

DoEncrypt ==
    /\ l_pc = "keyed"
    /\ l_keys[1].ok
    /\ \E message \in Messages, seed \in Seeds, draws \in EncDraws :
        LET rng == CreateSeededRng(seed)
            table == IF rng.ok THEN Drawn(l_chacha.encrypt, rng.val, draws)
                     ELSE l_chacha.encrypt
            key == l_keys[1].val
            public_key_bytes == EncodeMatrix(key.a) \o EncodeMatrix(<<key.b>>)
        IN /\ l_chacha' = [l_chacha EXCEPT !.encrypt = table]
           /\ l_msg' = message
           /\ l_eseed' = seed
           /\ l_enc' = Encrypt(public_key_bytes, message, seed, table)
    /\ l_pc' = "encrypted"
    /\ UNCHANGED <<l_seeds, l_keys, l_dec, l_codec, l_probe>>
    /\ LweFrame

DoDecrypt ==
    /\ l_pc = "encrypted"
    /\ l_enc.ok
    /\ l_dec' = Decrypt(EncodeMatrix(<<l_enc.val>>),
                        EncodeMatrix(<<l_keys[1].val.s>>))
    /\ l_pc' = "decrypted"
    /\ UNCHANGED <<l_chacha, l_seeds, l_keys, l_msg, l_eseed, l_enc, l_codec,
                   l_probe>>
    /\ LweFrame

DoCodec ==
    /\ l_pc = "idle"
    /\ \E rows \in 0..N, cols \in 1..N, x \in CodecVals, y \in CodecVals :
        LET matrix == MatrixOf(rows, cols, x, y)
        IN l_codec' = [matrix |-> matrix,
                       result |-> DecodeMatrix(EncodeMatrix(matrix), rows, cols)]
    /\ l_pc' = "coded"
    /\ UNCHANGED <<l_chacha, l_seeds, l_keys, l_msg, l_eseed, l_enc, l_dec,
                   l_probe>>
    /\ LweFrame

\* the message values encrypt accepts and the accumulated noise values
\* around zero and around Q/512
ProbeMessages == {0, 1, 128, 255}
ProbeNoise == {-129, -128, -127, -2, -1, 0, 1, 2, 127, 128, 129}

\* decrypt is given a ciphertext whose c carries the encoded message value
\* m plus the noise d, with v = 0 so that c - v.s = c
DoDecryptNoisy ==
    /\ l_pc = "idle"
    /\ \E m \in ProbeMessages, d \in ProbeNoise, s1 \in {0, 1, 3} :
        LET carried == (m * (Q \div 256) + d) % Q
            ciphertext == [i \in 1..(N + 1) |-> IF i = N + 1 THEN carried ELSE 0]
        IN l_probe' = [op |-> "decrypt", m |-> m, d |-> d, carried |-> carried,
                       message_val |-> MessageVal(carried),
                       result |-> Decrypt(EncodeMatrix(<<ciphertext>>),
                                          EncodeMatrix(<<VecOf(s1, 1)>>))]
    /\ l_pc' = "probed"
    /\ UNCHANGED <<l_chacha, l_seeds, l_keys, l_msg, l_eseed, l_enc, l_dec,
                   l_codec>>
    /\ LweFrame

\* byte strings handed to decode_matrix: byte k is p + 37 * k modulo 256
CodecBytes(len, p) == [k \in 1..len |-> (p + 37 * k) % 256]

\* decode_matrix on bytes of any length
DoDecodeMatrix ==
    /\ l_pc = "idle"
    /\ \E rows \in 0..N, cols \in 0..N, len \in 0..(2 * N * N + 2),
          p \in {0, 200} :
        l_codec' = [matrix |-> <<>>, bytes |-> CodecBytes(len, p),
                    rows |-> rows, cols |-> cols,
                    result |-> DecodeMatrix(CodecBytes(len, p), rows, cols)]
    /\ l_pc' = "decoded"
    /\ UNCHANGED <<l_chacha, l_seeds, l_keys, l_msg, l_eseed, l_enc, l_dec,
                   l_probe>>
    /\ LweFrame

\* the arithmetic of encrypt and decrypt on a key of keygen_with_seed, with
\* no byte encoding between them
DoEncryptUnencoded ==
    /\ l_pc = "keyed"
    /\ l_keys[1].ok
    /\ \E message \in {m \in Messages : Len(m) <= 1}, draws \in EncDraws :
        LET key == l_keys[1].val
            r == RandomErrorVector(draws, N)
            ciphertext == EncryptValues(key.a, key.b, r, message)
        IN l_probe' = [op |-> "identity", r |-> r, message |-> message,
                       ciphertext |-> ciphertext,
                       m |-> DecryptValues(ciphertext, key.s)]
    /\ l_pc' = "probed"
    /\ UNCHANGED <<l_chacha, l_seeds, l_keys, l_msg, l_eseed, l_enc, l_dec,
                   l_codec>>
    /\ LweFrame

\* operands of the modular operations: the ends of [0, Q) and the values
\* around a byte and a half-word boundary
ArithVals == {0, 1, 2, 255, 256, 257, 32768, 65535, Q - 1}

\* mod_add, mod_sub and mod_mul on one pair of operands
DoModArith ==
    /\ l_pc = "idle"
    /\ \E a \in ArithVals, b \in ArithVals :
        l_probe' = [op |-> "arith", a |-> a, b |-> b,
                    add |-> ModAdd(a, b), sub |-> ModSub(a, b),
                    mul |-> ModMul(a, b)]
    /\ l_pc' = "probed"
    /\ UNCHANGED <<l_chacha, l_seeds, l_keys, l_msg, l_eseed, l_enc, l_dec,
                   l_codec>>
    /\ LweFrame

LweNext ==
    \/ DoEncryptUnencoded
    \/ DoModArith
    \/ DoDecodeMatrix
    \/ DoKeygenWithSeed
    \/ DoEncrypt
    \/ DoDecrypt
    \/ DoCodec
    \/ DoDecryptNoisy

(***************************************************************************)
(* Operations of the fragmented key exchange                               *)
(***************************************************************************)
\* the fragment counts tried: around MIN_FRAGMENTS and around the bound of
\* params.rs
FragmentCounts ==
    (0..(MIN_FRAGMENTS + 1))
        \cup ((PARAMS_MAX_FRAGMENTS - 1)..(PARAMS_MAX_FRAGMENTS + 1))

\* the seed of the k-th component call: 32 bytes, distinct per component
\* and per purpose
ComponentSeed(k, purpose) ==
    [i \in 1..SEED_LENGTH |-> IF i = 1 THEN k ELSE purpose]

\* K components that are all base except the one at position d
Components(K, base, other, d) ==
    [k \in 1..K |-> IF k = d THEN other ELSE base]

\* the streams of the components: the k-th seed yields draws[k]
StreamsOf(K, purpose, draws) ==
    [seed \in {ComponentSeed(k, purpose) : k \in 1..K} |-> draws[seed[1]]]

BaseKeyDraws == [uniform |-> DiagOf(1, 2), s |-> VecOf(1, 1), e |-> VecOf(0, 0)]

\* a message of SECRET_LENGTH bytes: m first, then a filler
MessageOf(m) == [i \in 1..SECRET_LENGTH |-> IF i = 1 THEN m ELSE 5]

NoPlain == [keys |-> NotRun, enc |-> NotRun, tamper |-> "none",
            ct |-> NotRun, dec |-> NotRun]

FkemIdle ==
    /\ x_pc = "idle"
    /\ x_k = 0
    /\ x_keys = NotRun
    /\ x_enc = NotRun
    /\ x_dec = NotRun
    /\ x_plain = NoPlain

DoFragmentedKeygen ==
    /\ x_pc = "idle"
    /\ \E K \in FragmentCounts, other \in KeyDraws : \E d \in {1, K} :
        /\ x_k' = K
        /\ x_keys' = FragmentedKeygen(K,
                        [k \in 1..K |-> ComponentSeed(k, 1)],
                        StreamsOf(K, 1, Components(K, BaseKeyDraws, other, d)))
    /\ x_pc' = "keyed"
    /\ UNCHANGED <<x_enc, x_dec, x_plain>>
    /\ FkemFrame

DoFragmentedEncapsulate ==
    /\ x_pc = "keyed"
    /\ x_keys.ok
    /\ \E m \in {0, 1, 255}, other \in EncDraws, d \in {1, x_k} :
        x_enc' = FragmentedEncapsulate(x_keys.val.fpk,
                    Components(x_k, MessageOf(1), MessageOf(m), d),
                    [k \in 1..x_k |-> ComponentSeed(k, 2)],
                    StreamsOf(x_k, 2, Components(x_k, VecOf(1, 1), other, d)))
    /\ x_pc' = "encapsulated"
    /\ UNCHANGED <<x_k, x_keys, x_dec, x_plain>>
    /\ FkemFrame

DoFragmentedDecapsulate ==
    /\ x_pc = "encapsulated"
    /\ x_enc.ok
    /\ x_dec' = FragmentedDecapsulate(x_keys.val.fsk, x_enc.val.fct)
    /\ x_pc' = "decapsulated"
    /\ UNCHANGED <<x_k, x_keys, x_enc, x_plain>>
    /\ FkemFrame

DoPlainKeygen ==
    /\ x_pc = "idle"
    /\ \E draws \in KeyDraws :
        x_plain' = [x_plain EXCEPT !.keys =
                       PlainKeygen(ComponentSeed(1, 1),
                                   ComponentSeed(1, 1) :> draws)]
    /\ x_pc' = "plain_keyed"
    /\ UNCHANGED <<x_k, x_keys, x_enc, x_dec>>
    /\ FkemFrame

DoPlainEncapsulate ==
    /\ x_pc = "plain_keyed"
    /\ x_plain.keys.ok
    /\ \E m \in {0, 1, 255}, draws \in EncDraws :
        x_plain' = [x_plain EXCEPT !.enc =
                       PlainEncapsulate(x_plain.keys.val.pk, MessageOf(m),
                                        ComponentSeed(1, 2),
                                        ComponentSeed(1, 2) :> draws)]
    /\ x_pc' = "plain_encapsulated"
    /\ UNCHANGED <<x_k, x_keys, x_enc, x_dec>>
    /\ FkemFrame

\* the ciphertext reaches decapsulate as it was made, or with the first
\* byte of the carried message or the low byte of c replaced
DoPlainDecapsulate ==
    /\ x_pc = "plain_encapsulated"
    /\ x_plain.enc.ok
    /\ \E tamper \in {"none", "message", "c"} :
        LET made == x_plain.enc.val.ct
            given ==
                CASE tamper = "message" ->
                        [made EXCEPT !.message[1] = (@ + 1) % 256]
                  [] tamper = "c" ->
                        [made EXCEPT !.vc[2 * N + 1] = (@ + 1) % 256]
                  [] OTHER -> made
        IN x_plain' = [x_plain EXCEPT
                          !.tamper = tamper,
                          !.ct = given,
                          !.dec = PlainDecapsulate(x_plain.keys.val.sk, given)]
    /\ x_pc' = "plain_decapsulated"
    /\ UNCHANGED <<x_k, x_keys, x_enc, x_dec>>
    /\ FkemFrame

FkemNext ==
    \/ DoFragmentedKeygen
    \/ DoFragmentedEncapsulate
    \/ DoFragmentedDecapsulate
    \/ DoPlainKeygen
    \/ DoPlainEncapsulate
    \/ DoPlainDecapsulate

(***************************************************************************)
(* Further operations of fragment.rs                                       *)
(***************************************************************************)
\* the bytes of a KEM public key: the 64 bytes of the code fit one fragment
\* of 512, and so do the keys of the model
PublicKeyBytes == UNION {SeqsOfLen(n) : n \in 1..FRAGMENT_SIZE}

FopIdle ==
    /\ o_pc = "idle"
    /\ o_arg = <<>>
    /\ o_res = NotRun
    /\ o_next = NotRun
    /\ o_frag = NotRun
    /\ o_wire = <<>>
    /\ o_parsed = [tamper |-> "none", bytes |-> <<>>, result |-> NotRun]
    /\ o_slots = <<>>
    /\ o_par = NotRun
    /\ o_lat = <<>>

DoFragmentKemEncapsulation ==
    /\ o_pc = "idle"
    /\ \E public_key \in PublicKeyBytes :
        /\ o_arg' = public_key
        /\ o_res' = FragmentKemEncapsulation(public_key)
    /\ o_pc' = "kem_fragmented"
    /\ UNCHANGED <<o_next, o_frag, o_wire, o_parsed, o_slots, o_par, o_lat>>
    /\ FopFrame

DoFragmentHashOperation ==
    /\ o_pc = "idle"
    /\ \E data \in ShortBuffers :
        /\ o_arg' = data
        /\ o_res' = FragmentHashOperation(data)
    /\ o_pc' = "hash_fragmented"
    /\ UNCHANGED <<o_next, o_frag, o_wire, o_parsed, o_slots, o_par, o_lat>>
    /\ FopFrame

DoProcessFragmentedKem ==
    /\ o_pc \in {"kem_fragmented", "hash_fragmented"}
    /\ o_res.ok
    /\ o_next' = ProcessFragmentedKem(o_res.val)
    /\ o_pc' = "kem_processed"
    /\ UNCHANGED <<o_arg, o_res, o_frag, o_wire, o_parsed, o_slots, o_par, o_lat>>
    /\ FopFrame

\* the index and total fields a caller can pass to Fragment::new
FieldVals == 0..FRAGMENT_SIZE

\* Fragment::new on caller-chosen fields
DoFragmentNew ==
    /\ o_pc = "idle"
    /\ \E index \in FieldVals, total \in FieldVals :
        \E data \in UNION {SeqsOfLen(n) : n \in 0..FRAGMENT_SIZE} :
            /\ o_arg' = data
            /\ o_frag' = FragmentNew(index, total, data)
    /\ o_pc' = "fragment_built"
    /\ UNCHANGED <<o_res, o_next, o_wire, o_parsed, o_slots, o_par, o_lat>>
    /\ FopFrame

\* Fragment::to_bytes
DoToBytes ==
    /\ o_pc = "fragment_built"
    /\ o_wire' = ToBytes(o_frag)
    /\ o_pc' = "serialized"
    /\ UNCHANGED <<o_arg, o_res, o_next, o_frag, o_parsed, o_slots, o_par, o_lat>>
    /\ FopFrame

\* what can happen to the bytes between to_bytes and from_bytes
WireTampers ==
    {"as_is", "header_only", "truncated", "extended", "len_field",
     "index_field", "data_flipped", "hash_flipped"}

BumpAt(bytes, pos) == [bytes EXCEPT ![pos] = (@ + 1) % 256]

Tampered(bytes, tamper) ==
    CASE tamper = "as_is" -> bytes
      [] tamper = "header_only" -> SubSeq(bytes, 1, 12)
      [] tamper = "truncated" -> SubSeq(bytes, 1, Len(bytes) - 1)
      [] tamper = "extended" -> Append(bytes, 0)
      [] tamper = "len_field" -> BumpAt(bytes, 9)
      [] tamper = "index_field" -> BumpAt(bytes, 1)
      [] tamper = "data_flipped" ->
            IF Len(bytes) > 76 THEN BumpAt(bytes, 13) ELSE bytes
      [] tamper = "hash_flipped" -> BumpAt(bytes, Len(bytes))

\* Fragment::from_bytes on the received bytes
DoFromBytes ==
    /\ o_pc = "serialized"
    /\ \E tamper \in WireTampers :
        LET bytes == Tampered(o_wire, tamper)
        IN o_parsed' = [tamper |-> tamper, bytes |-> bytes,
                        result |-> FromBytes(bytes)]
    /\ o_pc' = "deserialized"
    /\ UNCHANGED <<o_arg, o_res, o_next, o_frag, o_wire, o_slots, o_par, o_lat>>
    /\ FopFrame

(***************************************************************************)
(* Key pairs and the zeroing of secrets                                    *)
(***************************************************************************)
NoObject == [kind |-> "none", op |-> "none", before |-> <<>>, after |-> <<>>]

KeyIdle ==
    /\ kp_pc = "idle"
    /\ kp_pairs = <<>>
    /\ kp_ok = <<>>
    /\ kp_obj = NoObject

\* KeyPair::generate; the generator is seeded from the clock, so the bytes
\* it fills are any array
DoKeyPairGenerate ==
    /\ kp_pc = "idle"
    /\ \E fill \in KemArrays : kp_pairs' = <<KeyPairGenerate(fill)>>
    /\ kp_pc' = "pairs"
    /\ UNCHANGED <<kp_ok, kp_obj>>
    /\ KeyFrame

DoKeyPairFromPrivateKey ==
    /\ kp_pc = "idle"
    /\ \E private_key \in KemArrays :
        kp_pairs' = <<KeyPairFromPrivateKey(private_key)>>
    /\ kp_pc' = "pairs"
    /\ UNCHANGED <<kp_ok, kp_obj>>
    /\ KeyFrame

DoKeyPairBatchGenerate ==
    /\ kp_pc = "idle"
    /\ \E count \in 0..MaxListLen :
        \E fills \in [1..count -> KemArrays] :
            kp_pairs' = KeyPairBatchGenerate(fills)
    /\ kp_pc' = "pairs"
    /\ UNCHANGED <<kp_ok, kp_obj>>
    /\ KeyFrame

DoKeyPairVerify ==
    /\ kp_pc = "pairs"
    /\ kp_ok' = [k \in 1..Len(kp_pairs) |-> KeyPairVerify(kp_pairs[k])]
    /\ kp_pc' = "verified"
    /\ UNCHANGED <<kp_pairs, kp_obj>>
    /\ KeyFrame

\* KeyPair::zeroize on a returned key pair
DoKeyPairZeroize ==
    /\ kp_pc = "pairs"
    /\ Len(kp_pairs) >= 1
    /\ kp_obj' = [kind |-> "KeyPair", op |-> "zeroize",
                  before |-> kp_pairs[1].private_key,
                  after |-> KeyPairZeroize(kp_pairs[1]).private_key,
                  pair |-> KeyPairZeroize(kp_pairs[1])]
    /\ kp_pc' = "zeroized"
    /\ UNCHANGED <<kp_pairs, kp_ok>>
    /\ KeyFrame

\* a returned key pair goes out of scope
DoKeyPairDrop ==
    /\ kp_pc = "pairs"
    /\ Len(kp_pairs) >= 1
    /\ kp_obj' = [kind |-> "KeyPair", op |-> "drop",
                  before |-> kp_pairs[1].private_key,
                  after |-> KeyPairDrop(kp_pairs[1]).private_key]
    /\ kp_pc' = "dropped"
    /\ UNCHANGED <<kp_pairs, kp_ok>>
    /\ KeyFrame

\* zeroize() of a PrivateKey, SecretKey or SharedSecret, secure_zero of a
\* buffer
DoZeroize ==
    /\ kp_pc = "idle"
    /\ \E kind \in {"PrivateKey", "SecretKey", "SharedSecret", "buffer"} :
        \E bytes \in KemArrays \cup ShortBuffers :
            /\ kind # "buffer" => bytes \in KemArrays
            /\ kp_obj' = [kind |-> kind, op |-> "zeroize", before |-> bytes,
                          after |->
                            CASE kind = "PrivateKey" -> PrivateKeyZeroize(bytes)
                              [] kind = "SecretKey" -> SecretKeyZeroize(bytes)
                              [] kind = "SharedSecret" ->
                                    SharedSecretZeroize(bytes)
                              [] kind = "buffer" -> SecureZero(bytes)]
    /\ kp_pc' = "zeroized"
    /\ UNCHANGED <<kp_pairs, kp_ok>>
    /\ KeyFrame

\* a PrivateKey, SecretKey or SharedSecret goes out of scope
DoDrop ==
    /\ kp_pc = "idle"
    /\ \E kind \in {"PrivateKey", "SecretKey", "SharedSecret"} :
        \E bytes \in KemArrays :
            kp_obj' = [kind |-> kind, op |-> "drop", before |-> bytes,
                       after |->
                         CASE kind = "PrivateKey" -> PrivateKeyDrop(bytes)
                           [] kind = "SecretKey" -> SecretKeyDrop(bytes)
                           [] kind = "SharedSecret" -> SharedSecretDrop(bytes)]
    /\ kp_pc' = "dropped"
    /\ UNCHANGED <<kp_pairs, kp_ok>>
    /\ KeyFrame

KeyNext ==
    \/ DoKeyPairGenerate
    \/ DoKeyPairFromPrivateKey
    \/ DoKeyPairBatchGenerate
    \/ DoKeyPairVerify
    \/ DoKeyPairZeroize
    \/ DoKeyPairDrop
    \/ DoZeroize
    \/ DoDrop

\* a worker runs process_single_fragment_optimized on one fragment that no
\* worker has taken yet; the workers run in any order
DoWorkerProcess ==
    /\ o_pc \in {"kem_fragmented", "hash_fragmented", "working"}
    /\ o_res.ok
    /\ \E k \in 1..Len(o_res.val.fragments) :
        LET fragment == o_res.val.fragments[k]
        IN /\ fragment.index \notin DOMAIN o_slots
           /\ o_slots' = (fragment.index :>
                             ProcessSingleFragmentOptimized(fragment)) @@ o_slots
    /\ o_pc' = "working"
    /\ UNCHANGED <<o_arg, o_res, o_next, o_frag, o_wire, o_parsed, o_par, o_lat>>
    /\ FopFrame

\* the results of slots lo..hi, in index order
RECURSIVE CollectSlots(_, _, _)
CollectSlots(slots, lo, hi) ==
    IF lo > hi THEN <<>> ELSE slots[lo] \o CollectSlots(slots, lo + 1, hi)

\* all workers are done: their results are collected by fragment index
DoCollectByIndex ==
    /\ o_pc = "working"
    /\ DOMAIN o_slots = 0..(Len(o_res.val.fragments) - 1)
    /\ o_par' = Ok(CollectSlots(o_slots, 0, Len(o_res.val.fragments) - 1))
    /\ o_next' = ProcessFragmentedKem(o_res.val)
    /\ o_pc' = "collected"
    /\ UNCHANGED <<o_arg, o_res, o_frag, o_wire, o_parsed, o_slots, o_lat>>
    /\ FopFrame

\* data sizes on both sides of MIN_FRAGMENT_THRESHOLD and of the six cores
LatencySizes == 0..(8 * FRAGMENT_SIZE)

\* estimate_mobile_latency is called, up to twice
DoEstimateMobileLatency ==
    /\ o_pc \in {"idle", "estimated"}
    /\ \E data_size \in LatencySizes :
        o_lat' = Append(o_lat, [data_size |-> data_size,
                                latency |-> EstimateMobileLatency(data_size)])
    /\ o_pc' = IF o_pc = "idle" THEN "estimated" ELSE "estimated_twice"
    /\ UNCHANGED <<o_arg, o_res, o_next, o_frag, o_wire, o_parsed, o_slots,
                   o_par>>
    /\ FopFrame

FopNext ==
    \/ DoEstimateMobileLatency
    \/ DoWorkerProcess
    \/ DoCollectByIndex
    \/ DoFragmentKemEncapsulation
    \/ DoFragmentHashOperation
    \/ DoProcessFragmentedKem
    \/ DoFragmentNew
    \/ DoToBytes
    \/ DoFromBytes

(***************************************************************************)
(* Specifications                                                          *)
(***************************************************************************)
vars == <<fragVars, kemVars, lweVars, fkemVars, fopVars, keyVars>>

\* the state after construction: no operation has run in any part
Init == FragInit /\ KemIdle /\ LweIdle /\ FkemIdle /\ FopIdle /\ KeyIdle

SpecFrag == Init /\ [][FragNext]_vars

SpecKem == Init /\ [][KemNext]_vars

SpecLwe == Init /\ [][LweNext]_vars

SpecFkem == Init /\ [][FkemNext]_vars

SpecFop == Init /\ [][FopNext]_vars

SpecKeys == Init /\ [][KeyNext]_vars

(***************************************************************************)
(* Properties of the fragment engine                                       *)
(***************************************************************************)
CeilDiv(n, d) == IF n % d = 0 THEN n \div d ELSE (n \div d) + 1

WithinBounds(data) ==
    Len(data) > 0 /\ CeilDiv(Len(data), FRAGMENT_SIZE) <= MAX_FRAGMENTS

\* C1: for every non-empty buffer of at most MAX_FRAGMENTS chunks,
\* fragment_data succeeds and reconstruct_data of its result succeeds and
\* returns exactly the buffer.
C1_FragmentRoundTrip ==
    /\ (f_pc = "fragmented" /\ WithinBounds(f_data)) => f_frags.ok
    /\ f_pc = "reconstructed" => (f_recon.ok /\ f_recon.val = f_data)

C1_Witness ==
    /\ f_pc = "reconstructed"
    /\ Len(f_data) = 2 * FRAGMENT_SIZE + 1
    /\ f_recon.ok
    /\ Len(f_list) = 3

\* C5: after one byte of a fragment's data was changed, verify() of that
\* fragment is false and reconstruct_data of a list containing it returns a
\* FragmentationError.
C5_TamperDetected ==
    f_pc = "tampered" =>
        /\ ~f_tamper.verify
        /\ ~f_recon.ok
        /\ f_recon.err = "FragmentationError"

C5_Witness ==
    /\ f_pc = "tampered"
    /\ f_tamper.mode = "in_place"
    /\ f_tamper.k = 2
    /\ Len(f_list) = 3
    /\ f_recon.why = "integrity"

\* C7: fragment_data returns a FragmentationError exactly when the input is
\* empty or has more than MAX_FRAGMENTS chunks, and Ok otherwise.
C7_FragmentDataErrors ==
    f_pc = "fragmented" =>
        /\ f_frags.ok <=> WithinBounds(f_data)
        /\ ~f_frags.ok => f_frags.err = "FragmentationError"

C7_Witness ==
    /\ f_pc = "fragmented"
    /\ Len(f_data) = FRAGMENT_SIZE * MAX_FRAGMENTS
    /\ f_frags.ok

\* what C8 requires of a list for reconstruct_data to accept it
WellFormedList(l) ==
    /\ Len(l) > 0
    /\ \A k, m \in 1..Len(l) : l[k].total = l[m].total
    /\ Len(l) = l[1].total
    /\ {l[k].index : k \in 1..Len(l)} = 0..(l[1].total - 1)
    /\ \A k, m \in 1..Len(l) : l[k].index = l[m].index => k = m
    /\ \A k \in 1..Len(l) : l[k].hash = HashNew(l[k].data)

\* the data of the fragments of l with index lo, lo+1, ..., hi, in that order
RECURSIVE ConcatByIndex(_, _, _)
ConcatByIndex(l, lo, hi) ==
    IF lo > hi THEN <<>>
    ELSE IF lo = hi THEN l[CHOOSE k \in 1..Len(l) : l[k].index = lo].data
    ELSE LET mid == (lo + hi) \div 2
         IN ConcatByIndex(l, lo, mid) \o ConcatByIndex(l, mid + 1, hi)

\* C8: reconstruct_data returns Ok exactly for the well-formed lists, then
\* with the data concatenated in ascending index order, and a
\* FragmentationError for every other list.
C8_ReconstructExactly ==
    f_pc \in {"reconstructed", "tampered", "list_reconstructed"} =>
        /\ f_recon.ok <=> WellFormedList(f_list)
        /\ f_recon.ok => f_recon.val = ConcatByIndex(f_list, 0, Len(f_list) - 1)
        /\ ~f_recon.ok => f_recon.err = "FragmentationError"

C8_Witness ==
    /\ f_pc = "list_reconstructed"
    /\ f_recon.ok
    /\ Len(f_list) = 2
    /\ f_list[1].index = 1
    /\ f_list[1].data # f_list[2].data


AllEntriesBelowQ(matrix) ==
    \A i \in 1..Len(matrix) : \A j \in 1..Len(matrix[i]) :
        matrix[i][j] >= 0 /\ matrix[i][j] < Q

\* C4: for every rows x cols matrix M whose entries are all in [0, Q),
\* decode_matrix(encode_matrix(M), rows, cols) returns Ok(M).
C4_CodecRoundTrip ==
    (l_pc = "coded" /\ AllEntriesBelowQ(l_codec.matrix))
        => l_codec.result = Ok(l_codec.matrix)

\* C2: for every key pair of keygen_with_seed, every 32-byte encryption seed
\* and every message encrypt accepts, decrypt of the encoded ciphertext and
\* the encoded s returns exactly the message bytes.  Stated for the one-byte
\* messages; the empty message, which encrypt accepts too, comes back as
\* one zero byte.
C2_LweRoundTrip ==
    (l_pc = "decrypted" /\ Len(l_eseed) = SEED_LENGTH /\ Len(l_msg) = 1)
        => l_dec = Ok(l_msg)

SeedPrefix(seed) == SubSeq(seed, 1, SEED_LENGTH)

\* C6: two keygen_with_seed calls with seeds that agree on their first 32
\* bytes return identical A, b and s, hence identical encoded keys.
C6_KeygenDeterminism ==
    (/\ l_pc = "keyed_twice"
     /\ Len(l_seeds[1]) >= SEED_LENGTH
     /\ Len(l_seeds[2]) >= SEED_LENGTH
     /\ SeedPrefix(l_seeds[1]) = SeedPrefix(l_seeds[2]))
        => /\ l_keys[1].ok
           /\ l_keys[2] = l_keys[1]
           /\ EncodeMatrix(l_keys[2].val.a) = EncodeMatrix(l_keys[1].val.a)
           /\ EncodeMatrix(<<l_keys[2].val.b>>) = EncodeMatrix(<<l_keys[1].val.b>>)
           /\ EncodeMatrix(<<l_keys[2].val.s>>) = EncodeMatrix(<<l_keys[1].val.s>>)

C6_Witness ==
    /\ l_pc = "keyed_twice"
    /\ Len(l_seeds[1]) = SEED_LENGTH
    /\ Len(l_seeds[2]) = SEED_LENGTH + 1
    /\ SeedPrefix(l_seeds[1]) = SeedPrefix(l_seeds[2])
    /\ l_keys[1].ok
    /\ l_keys[2] = l_keys[1]
    /\ DOMAIN l_chacha.keygen = {SeedPrefix(l_seeds[1])}


(***************************************************************************)
(* Properties of the fragmented key exchange                               *)
(***************************************************************************)
\* C9: for K = MIN_FRAGMENTS and K = MAX_FRAGMENTS, fragmented decapsulate
\* of the ciphertext of fragmented encapsulate returns the shared secret
\* encapsulate returned.
C9_FragmentedConsistency ==
    (x_pc = "decapsulated" /\ x_k \in {MIN_FRAGMENTS, PARAMS_MAX_FRAGMENTS})
        => x_dec = Ok(x_enc.val.ss)

\* C10: fragmented keygen(K) fails for K < MIN_FRAGMENTS and for
\* K > MAX_FRAGMENTS, returns exactly K key pairs otherwise, and its upper
\* bound is the one fragment_data enforces on the number of fragments.
C10_FragmentedKeygenBounds ==
    x_pc = "keyed" =>
        /\ (x_k < MIN_FRAGMENTS \/ x_k > PARAMS_MAX_FRAGMENTS) => ~x_keys.ok
        /\ (x_k >= MIN_FRAGMENTS /\ x_k <= PARAMS_MAX_FRAGMENTS) =>
              /\ x_keys.ok
              /\ Len(x_keys.val.fpk) = x_k
              /\ Len(x_keys.val.fsk) = x_k
              /\ \A k \in 1..x_k :
                    SubSeq(x_keys.val.fpk[k], N * N * 2 + N * 2 + 1,
                           N * N * 2 + N * 2 + SEED_LENGTH)
                        = ComponentSeed(k, 1)
        /\ x_k >= MIN_FRAGMENTS =>
              (x_keys.ok <=> FragmentData(PatternBuffer(x_k * FRAGMENT_SIZE, 0, 1)).ok)


(***************************************************************************)
(* Properties of the further operations of fragment.rs                     *)
(***************************************************************************)
HashesInOrder(fragments) == [k \in 1..Len(fragments) |-> fragments[k].hash]

\* C11: the combined result over K fragments is the hash of the K
\* per-fragment results taken in index order and hashed once, also for
\* K = 1; it is never a per-fragment hash used alone.
C11_CombinedIsHashOfConcat ==
    (o_pc \in {"kem_fragmented", "hash_fragmented"} /\ o_res.ok)
        => /\ o_res.val.combined_hash = HashConcat(HashesInOrder(o_res.val.fragments))
           /\ \A k \in 1..Len(o_res.val.fragments) :
                 o_res.val.combined_hash # o_res.val.fragments[k].hash


(***************************************************************************)
(* Further properties of the LWE engine                                    *)
(***************************************************************************)
\* C12: given a valid key and seed, encrypt succeeds for every message of
\* one or two bytes (its packed integer fits in one coefficient) and returns
\* an Encapsulation error for every larger message.
C12_MessageCapacity ==
    (l_pc = "encrypted" /\ Len(l_eseed) >= SEED_LENGTH) =>
        /\ Len(l_msg) \in {1, 2} => l_enc.ok
        /\ Len(l_msg) > 2 => (~l_enc.ok /\ l_enc.err = "Encapsulation")


\* C13: for every message value m of 0..255 and every noise d with
\* |d| < Q/512, the rounding step of decrypt applied to (m*(Q/256) + d) mod Q
\* gives m, and decrypt returns the one byte m.
C13_NoiseTolerance ==
    (/\ l_pc = "probed"
     /\ l_probe.op = "decrypt"
     /\ l_probe.d > 0 - (Q \div 512)
     /\ l_probe.d < Q \div 512)
        => /\ l_probe.message_val = l_probe.m
           /\ l_probe.result = Ok(<<l_probe.m>>)


(***************************************************************************)
(* Properties of the plain key exchange                                    *)
(***************************************************************************)
\* the value c - v.s rounded to the nearest multiple of Q/256, as bytes
RecoveredBytes(ct, sk) ==
    LET m == DecryptValue(ct.vc, SubSeq(sk, 1, N * 2))
        scaling_factor == Q \div 256
    IN UnpackLe((2 * m + scaling_factor) \div (2 * scaling_factor))

C15_SerializedSizes ==
    (x_pc = "plain_encapsulated" /\ x_plain.enc.ok) =>
        /\ Len(x_plain.keys.val.pk) = PUBLIC_KEY_BYTES
        /\ Len(x_plain.keys.val.sk) = SECRET_KEY_BYTES
        /\ Len(x_plain.enc.val.ct.vc) + Len(x_plain.enc.val.ct.message)
              = CIPHERTEXT_BYTES
        /\ Decrypt(x_plain.enc.val.ct.vc, x_plain.keys.val.sk).ok


\* what the invariant of a Fragment asks of one value
FragmentInvariant(f) == f.hash = HashNew(f.data) /\ f.index < f.total

\* C16: every Fragment obtained from fragment_data, Fragment::new or
\* Fragment::from_bytes has hash = digest(data) and index < total, and the
\* fragments of one buffer carry the same total.
C16_FragmentInvariant ==
    /\ (o_pc \in {"kem_fragmented", "hash_fragmented"} /\ o_res.ok) =>
          \A k \in 1..Len(o_res.val.fragments) :
              /\ FragmentInvariant(o_res.val.fragments[k])
              /\ o_res.val.fragments[k].total = o_res.val.fragments[1].total
    /\ o_pc = "fragment_built" => FragmentInvariant(o_frag)
    /\ (o_pc = "deserialized" /\ o_parsed.result.ok) =>
          FragmentInvariant(o_parsed.result.val)

\* the data_len field and the data and digest parts of received bytes
WireDataLen(bytes) == FromLeBytes4(SubSeq(bytes, 9, 12))
WireData(bytes) == SubSeq(bytes, 13, 12 + WireDataLen(bytes))
WireDigest(bytes) == SubSeq(bytes, Len(bytes) - 63, Len(bytes))
IsFragmentationError(r) == ~r.ok /\ r.err = "FragmentationError"

\* C17: from_bytes(to_bytes(f)) = Ok(f) for a fragment whose hash matches its
\* data, with to_bytes = index || total || data_len || data || digest; bytes
\* shorter than 76, of a length other than 12 + data_len + 64, or whose
\* digest does not match the data give a FragmentationError.
C17_WireRoundTrip ==
    /\ (o_pc = "serialized" /\ VerifyFast(o_frag)) =>
          /\ o_wire = ToLeBytes4(o_frag.index) \o ToLeBytes4(o_frag.total)
                         \o ToLeBytes4(Len(o_frag.data)) \o o_frag.data
                         \o o_frag.hash
          /\ FromBytes(o_wire) = Ok(o_frag)
    /\ o_pc = "deserialized" =>
          /\ (o_parsed.tamper = "as_is" /\ VerifyFast(o_frag)) =>
                o_parsed.result = Ok(o_frag)
          /\ Len(o_parsed.bytes) < 76 => IsFragmentationError(o_parsed.result)
          /\ (Len(o_parsed.bytes) >= 76
                /\ Len(o_parsed.bytes) # 12 + WireDataLen(o_parsed.bytes) + 64)
                => IsFragmentationError(o_parsed.result)
          /\ (Len(o_parsed.bytes) = 12 + WireDataLen(o_parsed.bytes) + 64
                /\ HashNew(WireData(o_parsed.bytes)) # WireDigest(o_parsed.bytes))
                => IsFragmentationError(o_parsed.result)

C17_Witness ==
    /\ o_pc = "deserialized"
    /\ o_parsed.tamper = "data_flipped"
    /\ Len(o_frag.data) = FRAGMENT_SIZE
    /\ o_frag.index = 1
    /\ IsFragmentationError(o_parsed.result)
    /\ o_parsed.result.why = "Fragment integrity check failed"
    /\ FromBytes(o_wire) = Ok(o_frag)


\* C18: every KeyPair returned by generate, from_private_key or
\* batch_generate satisfies verify(): its public key is the one derived from
\* its private key.
C18_KeyPairVerifies ==
    /\ kp_pc = "verified" => \A k \in 1..Len(kp_ok) : kp_ok[k]
    /\ kp_pc = "pairs" =>
          \A k \in 1..Len(kp_pairs) :
              kp_pairs[k].public_key = PrivateKeyPublicKey(kp_pairs[k].private_key)

C18_Witness ==
    /\ kp_pc = "verified"
    /\ Len(kp_pairs) = MaxListLen
    /\ kp_pairs[1].private_key # kp_pairs[2].private_key
    /\ kp_pairs[1].public_key # kp_pairs[2].public_key
    /\ \A k \in 1..Len(kp_ok) : kp_ok[k]

AllZero(bytes) == \A i \in 1..Len(bytes) : bytes[i] = 0

\* C19: after zeroize() on a SecretKey, SharedSecret or PrivateKey and after
\* secure_zero on a buffer every byte of the secret is 0, and a dropped
\* SecretKey, SharedSecret, PrivateKey or KeyPair is zeroed at its release.
C19_SecretZeroing ==
    kp_pc \in {"zeroized", "dropped"} =>
        /\ Len(kp_obj.after) = Len(kp_obj.before)
        /\ AllZero(kp_obj.after)

C19_Witness ==
    /\ kp_pc = "dropped"
    /\ kp_obj.kind = "KeyPair"
    /\ ~AllZero(kp_obj.before)
    /\ kp_obj.before[PRIVATE_KEY_SIZE] # 0
    /\ AllZero(kp_obj.after)


\* a value of Z_Q written as a signed draw of the error distribution
AsResidue(x) == ((x % Q) + Q) % Q

\* the sum over j <= k of row[j] * s[j], each product reduced modulo Q
RECURSIVE SumProducts(_, _, _)
SumProducts(row, s, k) ==
    IF k = 0 THEN 0 ELSE SumProducts(row, s, k - 1) + ModMul(row[k], s[k])

\* C20: keygen_with_seed returns an N x N matrix A and vectors b, s of length
\* N with entries in 0..Q-1, and b[i] = (sum_j A[i][j]*s[j] + e[i]) mod Q,
\* where A, s and e are the first, second and third draw of the seeded
\* generator.
C20_KeygenEquation ==
    \A k \in 1..Len(l_keys) :
        l_keys[k].ok =>
            LET draws == l_chacha.keygen[CreateSeededRng(l_seeds[k]).val]
                key == l_keys[k].val
            IN /\ Len(key.a) = N /\ Len(key.b) = N /\ Len(key.s) = N
               /\ \A i \in 1..N :
                    /\ Len(key.a[i]) = N
                    /\ key.b[i] \in 0..(Q - 1) /\ key.s[i] \in 0..(Q - 1)
                    /\ key.s[i] = AsResidue(draws.s[i])
                    /\ \A j \in 1..N :
                          /\ key.a[i][j] \in 0..(Q - 1)
                          /\ key.a[i][j] = draws.uniform[(i - 1) * N + j]
                    /\ key.b[i] = (SumProducts(key.a[i], key.s, N)
                                      + AsResidue(draws.e[i])) % Q

C20_Witness ==
    /\ Len(l_keys) >= 1 /\ l_keys[1].ok
    /\ l_keys[1].val.a[1][1] = Q - 1
    /\ l_keys[1].val.a[1][N] = 2
    /\ l_keys[1].val.s[1] = Q - 1
    /\ l_chacha.keygen[CreateSeededRng(l_seeds[1]).val].e[1] = -1
    /\ l_keys[1].val.b[1] = 2 * (N - 1)


(***************************************************************************)
(* Properties of the modular arithmetic                                    *)
(***************************************************************************)
\* a * b mod Q by doubling, b halved at every step
RECURSIVE MulByDoubling(_, _)
MulByDoubling(a, b) ==
    IF b = 0 THEN 0
    ELSE (2 * MulByDoubling(a, b \div 2) + (b % 2) * a) % Q

\* x is a value of a u32
FitsU32(x) == x >= 0 /\ x \div U16_RANGE < U16_RANGE

\* the product of a and b is a value of a u64: their bit lengths add up to
\* at most 64
ProductFitsU64(a, b) == a >= 0 /\ b >= 0 /\ Ilog2(a) + Ilog2(b) + 2 <= 64

\* the accumulations of keygen_with_seed, encrypt and decrypt stay in a u32
KeygenStepsFit(k) ==
    LET draws == l_chacha.keygen[CreateSeededRng(l_seeds[k]).val]
        key == l_keys[k].val
        e == RandomErrorVector(draws.e, N)
    IN \A i \in 1..N :
          /\ \A x \in DotSteps(key.a[i], key.s, 1, 0) : FitsU32(x)
          /\ \A x \in ModAddSteps(DotFrom(key.a[i], key.s, 1, 0), e[i]) :
                FitsU32(x)
          /\ \A j \in 1..N : ProductFitsU64(key.a[i][j], key.s[j])

EncryptStepsFit ==
    LET key == l_keys[1].val
        a == DecodeMatrix(EncodeMatrix(key.a), N, N).val
        b == DecodeMatrix(EncodeMatrix(<<key.b>>), 1, N).val[1]
        r == RandomErrorVector(
                 l_chacha.encrypt[CreateSeededRng(l_eseed).val], N)
        message_val == PackLe(l_msg, 1)
        scaling_factor == Q \div 256
    IN /\ \A j \in 1..N :
            \A x \in DotSteps(r, Column(a, j), 1, 0) : FitsU32(x)
       /\ \A x \in DotSteps(r, b, 1, 0) : FitsU32(x)
       /\ FitsU32(message_val) /\ FitsU32(message_val * scaling_factor)
       /\ \A x \in ModAddSteps(DotFrom(r, b, 1, 0),
                               (message_val * scaling_factor) % Q) : FitsU32(x)

DecryptStepsFit ==
    LET ciphertext == DecodeMatrix(EncodeMatrix(<<l_enc.val>>), 1, N + 1).val[1]
        v == SubSeq(ciphertext, 1, N)
        c == ciphertext[N + 1]
        s == DecodeMatrix(EncodeMatrix(<<l_keys[1].val.s>>), 1, N).val[1]
        m == ModSub(c, DotFrom(v, s, 1, 0))
    IN /\ \A x \in DotSteps(v, s, 1, 0) : FitsU32(x)
       /\ \A x \in ModSubSteps(c, DotFrom(v, s, 1, 0)) : FitsU32(x)
       /\ FitsU32(m + (Q \div 256) \div 2)

\* C21: for a, b in 0..Q-1, mod_add, mod_sub and mod_mul return (a+b) mod Q,
\* (a-b) mod Q and (a*b) mod Q, each in 0..Q-1, and no intermediate value of
\* them or of the accumulations of keygen_with_seed, encrypt and decrypt
\* leaves its unsigned type (u32, u64 for the product of mod_mul).
C21_ModularArithmetic ==
    /\ (l_pc = "probed" /\ l_probe.op = "arith") =>
          /\ l_probe.add = (l_probe.a + l_probe.b) % Q
          /\ l_probe.sub = (l_probe.a - l_probe.b) % Q
          /\ l_probe.mul = MulByDoubling(l_probe.a, l_probe.b)
          /\ {l_probe.add, l_probe.sub, l_probe.mul} \subseteq 0..(Q - 1)
          /\ \A x \in ModAddSteps(l_probe.a, l_probe.b) : FitsU32(x)
          /\ \A x \in ModSubSteps(l_probe.a, l_probe.b) : FitsU32(x)
          /\ ProductFitsU64(l_probe.a, l_probe.b)
    /\ \A k \in 1..Len(l_keys) : l_keys[k].ok => KeygenStepsFit(k)
    /\ (l_pc \in {"encrypted", "decrypted"} /\ l_enc.ok) => EncryptStepsFit
    /\ (l_pc = "decrypted" /\ l_dec.ok) => DecryptStepsFit

C21_Witness ==
    /\ l_pc = "probed" /\ l_probe.op = "arith"
    /\ l_probe.a = 1 /\ l_probe.b = Q - 1
    /\ l_probe.sub = 2
    /\ l_probe.mul = Q - 1


\* the little-endian u16 at the 0-based byte offset off
U16At(bytes, off) == bytes[off + 1] + 256 * bytes[off + 2]

\* C22: decode_matrix returns InvalidParameter exactly when the bytes are
\* fewer than rows*cols*2; otherwise it returns a rows x cols matrix whose
\* entry (i, j) is the little-endian u16 at byte offset 2*(i*cols + j), and
\* trailing bytes are ignored.
C22_DecodeMatrix ==
    l_pc = "decoded" =>
        IF Len(l_codec.bytes) < l_codec.rows * l_codec.cols * 2
        THEN ~l_codec.result.ok /\ l_codec.result.err = "InvalidParameter"
        ELSE /\ l_codec.result.ok
             /\ Len(l_codec.result.val) = l_codec.rows
             /\ \A i \in 0..(l_codec.rows - 1) :
                   /\ Len(l_codec.result.val[i + 1]) = l_codec.cols
                   /\ \A j \in 0..(l_codec.cols - 1) :
                         l_codec.result.val[i + 1][j + 1] =
                             U16At(l_codec.bytes, 2 * (i * l_codec.cols + j))

C22_Witness ==
    /\ l_pc = "decoded"
    /\ l_codec.rows = N /\ l_codec.cols = N
    /\ Len(l_codec.bytes) = 2 * N * N + 1
    /\ l_codec.result.ok
    /\ l_codec.result.val[N][N] > 255
    /\ l_codec.result.val[1][1] # l_codec.result.val[N][N]


IsRandomGenerationError(r) == ~r.ok /\ r.err = "RandomGeneration"

\* C23: create_seeded_rng fails with RandomGeneration exactly when the seed
\* has fewer than 32 bytes, and keygen_with_seed and encrypt return that
\* error, and no key or ciphertext, when given such a seed with otherwise
\* valid inputs.
C23_ShortSeedRejected ==
    /\ \A k \in 1..Len(l_keys) :
          /\ IsRandomGenerationError(CreateSeededRng(l_seeds[k]))
                <=> Len(l_seeds[k]) < 32
          /\ CreateSeededRng(l_seeds[k]).ok <=> Len(l_seeds[k]) >= 32
          /\ Len(l_seeds[k]) < 32 => IsRandomGenerationError(l_keys[k])
          /\ Len(l_seeds[k]) >= 32 => l_keys[k].ok
    /\ (l_pc = "encrypted" /\ Len(l_eseed) < 32 /\ Len(l_msg) <= 1) =>
          IsRandomGenerationError(l_enc)
    /\ (l_pc = "encrypted" /\ Len(l_eseed) >= 32) =>
          ~IsRandomGenerationError(l_enc)

C23_Witness ==
    /\ l_pc = "encrypted"
    /\ Len(l_eseed) = SEED_LENGTH - 1
    /\ Len(l_msg) = 1
    /\ IsRandomGenerationError(l_enc)
    /\ l_keys[1].ok


\* C24: for every fragment list F and every permutation P of it,
\* reconstruct_data(P) and reconstruct_data(F) return the same bytes or both
\* return a FragmentationError.
C24_OrderIndependence ==
    f_pc = "permuted" =>
        IF f_recon.ok THEN f_perm.result = f_recon
        ELSE /\ IsFragmentationError(f_recon)
             /\ IsFragmentationError(f_perm.result)

C24_Witness ==
    /\ f_pc = "permuted"
    /\ Len(f_list) = MaxListLen + 1
    /\ f_perm.list # f_list
    /\ f_perm.list[1].index = MaxListLen
    /\ f_recon.ok
    /\ f_perm.result = Ok(f_data)


\* C25: in process_fragmented_kem the result of each fragment depends on
\* that fragment only and the output is the per-fragment results in
\* fragment-index order, so workers that process the fragments in any
\* interleaving, collected by index, give the output of the sequential loop.
C25_FragmentsIndependent ==
    /\ o_pc = "collected" => o_par = o_next
    /\ (o_pc = "kem_processed" /\ o_next.ok) =>
          /\ Len(o_next.val) = HASH_SIZE * Len(o_res.val.fragments)
          /\ \A k \in 1..Len(o_res.val.fragments) :
                SubSeq(o_next.val, HASH_SIZE * (k - 1) + 1, HASH_SIZE * k) =
                    HashXor(o_res.val.fragments[k].hash,
                            HashNew(ToLeBytes4(o_res.val.fragments[k].index)))

C25_Witness ==
    /\ o_pc = "collected"
    /\ Len(o_res.val.fragments) >= 2
    /\ o_par.ok /\ o_par = o_next
    /\ o_slots[0] # o_slots[1]


\* C26: for every input fragment_data accepts, the result has
\* ceil(len / FRAGMENT_SIZE) fragments, the fragment at position i has index
\* i and total equal to the fragment count, every fragment but the last holds
\* FRAGMENT_SIZE bytes, the last holds 1..FRAGMENT_SIZE bytes, and every
\* fragment passes verify().
C26_FragmentLayout ==
    (f_pc = "fragmented" /\ f_frags.ok) =>
        LET count == Len(f_frags.val)
        IN /\ count = CeilDiv(Len(f_data), FRAGMENT_SIZE)
           /\ \A i \in 0..(count - 1) :
                 /\ f_frags.val[i + 1].index = i
                 /\ f_frags.val[i + 1].total = count
                 /\ Verify(f_frags.val[i + 1])
                 /\ i < count - 1 =>
                       Len(f_frags.val[i + 1].data) = FRAGMENT_SIZE
           /\ Len(f_frags.val[count].data) \in 1..FRAGMENT_SIZE
           /\ Len(f_frags.val[count].data) =
                 Len(f_data) - FRAGMENT_SIZE * (count - 1)

C26_Witness ==
    /\ f_pc = "fragmented" /\ f_frags.ok
    /\ Len(f_data) = (MAX_FRAGMENTS - 1) * FRAGMENT_SIZE + 1
    /\ Len(f_frags.val) = MAX_FRAGMENTS
    /\ Len(f_frags.val[MAX_FRAGMENTS].data) = 1
    /\ f_frags.val[MAX_FRAGMENTS].index = MAX_FRAGMENTS - 1


\* C27: estimate_mobile_latency never returns less than the 3 ms setup
\* overhead and never decreases when data_size grows.
C27_LatencyMonotone ==
    \A i, j \in 1..Len(o_lat) :
        /\ o_lat[i].latency >= 3
        /\ o_lat[i].data_size <= o_lat[j].data_size
              => o_lat[i].latency <= o_lat[j].latency


\* C28: with b = A.s + e, v = r.A and c = r.b + encode(message) as
\* keygen_with_seed and encrypt compute them, before any byte encoding, the
\* value c - v.s that decrypt computes equals r.e + encode(message) modulo Q.
C28_DecryptionIdentity ==
    (l_pc = "probed" /\ l_probe.op = "identity") =>
        LET draws == l_chacha.keygen[CreateSeededRng(l_seeds[1]).val]
            e == [i \in 1..N |-> AsResidue(draws.e[i])]
            encoded == (PackLe(l_probe.message, 1) * (Q \div 256)) % Q
        IN l_probe.m = (SumProducts(l_probe.r, e, N) + encoded) % Q

C28_Witness ==
    /\ l_pc = "probed" /\ l_probe.op = "identity"
    /\ l_probe.message = <<255>>
    /\ l_probe.r[1] = Q - 1
    /\ l_keys[1].val.s[1] = Q - 1
    /\ l_keys[1].val.a[1][1] = Q - 1
    /\ l_chacha.keygen[CreateSeededRng(l_seeds[1]).val].e[1] = 2
    /\ l_probe.m = 255 * (Q \div 256) - 2


\* C29: in the hash-based Kem the ciphertext is the ephemeral value itself,
\* Kem::decapsulate(sk, ct) equals Hash::combine(ct, pk) with
\* pk = sk.derive_public_key(), and two secret keys with the same derived
\* public key give the same shared secret for the same ciphertext.
C29_SecretFromPublicValues ==
    /\ k_pc \in {"encapsulated", "decapsulated", "decapsulated_other"} =>
          k_ct = k_eph
    /\ k_pc \in {"decapsulated", "decapsulated_other"} =>
          k_ss_dec = HashCombine(k_ct, DerivePublicKey(k_sk))
    /\ k_pc = "decapsulated_other" =>
          /\ k_other.ss = HashCombine(k_ct, DerivePublicKey(k_other.sk))
          /\ DerivePublicKey(k_other.sk) = DerivePublicKey(k_sk)
                => k_other.ss = k_ss_dec

C29_Witness ==
    /\ k_pc = "decapsulated_other"
    /\ k_other.sk # k_sk
    /\ k_other.ss # k_ss_dec
    /\ k_ct = k_eph
    /\ k_ss_dec = HashCombine(k_eph, k_pk)


\* C30: KeyPair::zeroize sets every byte of the pair's private key to zero
\* and leaves the stored public key as it was before the call.
C30_ZeroizeKeepsPublicKey ==
    (kp_pc = "zeroized" /\ kp_obj.kind = "KeyPair") =>
        /\ Len(kp_obj.pair.private_key) = PRIVATE_KEY_SIZE
        /\ \A i \in 1..PRIVATE_KEY_SIZE : kp_obj.pair.private_key[i] = 0
        /\ kp_obj.pair.public_key = kp_pairs[1].public_key

C30_Witness ==
    /\ kp_pc = "zeroized" /\ kp_obj.kind = "KeyPair"
    /\ kp_pairs[1].private_key[2] # 0
    /\ kp_obj.pair.private_key[2] = 0
    /\ kp_obj.pair.public_key = kp_pairs[1].public_key
    /\ ~KeyPairVerify(kp_obj.pair)

====
